---- MODULE Spec2Model ----
(***************************************************************************)
(* Semantic analyzer (semantics/type_environment.py) and tree-walking      *)
(* evaluator (interpreter/evaluator.py) of the COOL compiler, over the     *)
(* AST of cool_ast/nodes.py as parser/parser.py builds it.                 *)
(***************************************************************************)
EXTENDS Integers, Sequences, FiniteSets, TLC

VARIABLES
    ast,            \* Program.classes: the ordered class nodes
    class_table,    \* TypeChecker.class_table: name -> descriptor
    table_keys,     \* insertion order of the keys of class_table
    errors,         \* TypeChecker.errors
    current_class,  \* TypeChecker.current_class
    local_vars,     \* TypeChecker.local_vars
    checked,        \* expressions handed to get_expr_type by check_class,
                    \* as <<class, feature>> (its "Type checking expr" output)
    pc,             \* position inside TypeChecker.check
    idx,            \* index of the class node the loop of check is at
    ret,            \* return value of check
    class_defs,     \* Evaluator.class_defs: name -> class node
    global_env,     \* Evaluator.global_env.vars
    heap,           \* the COOLObjects created, by identity
    calls,          \* number of calls of eval_expr made
    epc,            \* position of Evaluator.eval: "start" or "done"
    result          \* outcome of Evaluator.eval: a value or an exception

vars == <<ast, class_table, table_keys, errors, current_class, local_vars,
          checked, pc, idx, ret, class_defs, global_env, heap, calls, epc, result>>
checker_vars == <<class_table, table_keys, errors, current_class, local_vars,
                  checked, pc, idx, ret>>
evaluator_vars == <<class_defs, global_env, heap, calls, epc, result>>

-----------------------------------------------------------------------------
(* Bounds *)
MaxClasses == 3

-----------------------------------------------------------------------------
(* Python values *)
None == "None"
EmptyMap == [k \in {} |-> None]
Put(f, k, v) == [y \in (DOMAIN f) \cup {k} |-> IF y = k THEN v ELSE f[y]]

-----------------------------------------------------------------------------
(* cool_ast/nodes.py *)
NoExpr == [kind |-> "None"]
IntegerConstant(v) == [kind |-> "IntegerConstant", value |-> v]
StringConstant(v) == [kind |-> "StringConstant", value |-> v]
BooleanConstant(v) == [kind |-> "BooleanConstant", value |-> v]
Identifier(n) == [kind |-> "Identifier", name |-> n]
Self == [kind |-> "Self"]
Assign(n, e) == [kind |-> "Assign", name |-> n, expr |-> e]
Dispatch(o, m, a) == [kind |-> "Dispatch", obj |-> o, method |-> m, args |-> a]
StaticDispatch(o, t, m, a) ==
    [kind |-> "StaticDispatch", obj |-> o, type |-> t, method |-> m, args |-> a]
Conditional(p, t, e) ==
    [kind |-> "Conditional", predicate |-> p, then_expr |-> t, else_expr |-> e]
Let(b, e) == [kind |-> "Let", bindings |-> b, body |-> e]
Block(es) == [kind |-> "Block", expressions |-> es]
Case(e, cs) == [kind |-> "Case", expr |-> e, cases |-> cs]
Branch(n, t, e) == [name |-> n, type |-> t, expr |-> e]
New(t) == [kind |-> "New", type |-> t]
IsVoid(e) == [kind |-> "IsVoid", expr |-> e]
BinaryOp(o, l, r) == [kind |-> "BinaryOp", operator |-> o, left |-> l, right |-> r]
Formal(n, t) == [name |-> n, type |-> t]
Method(n, fs, rt, b) ==
    [fkind |-> "Method", name |-> n, formals |-> fs, return_type |-> rt, body |-> b]
Attribute(n, t, i) == [fkind |-> "Attribute", name |-> n, type |-> t, init |-> i]
Class(n, p, fs) == [name |-> n, parent |-> p, features |-> fs]

-----------------------------------------------------------------------------
(* TypeChecker.__init__ *)
Sig(ps, rt) == [params |-> ps, ret |-> rt]
Descriptor(p, ms, as) == [parent |-> p, methods |-> ms, attributes |-> as]

basic_types ==
    ("Object" :> Descriptor(None,
        ("abort" :> Sig(<<>>, "Object")) @@
        ("type_name" :> Sig(<<>>, "String")) @@
        ("copy" :> Sig(<<>>, "SELF_TYPE")), EmptyMap)) @@
    ("IO" :> Descriptor("Object",
        ("out_string" :> Sig(<< <<"x", "String">> >>, "IO")) @@
        ("out_int" :> Sig(<< <<"x", "Int">> >>, "IO")) @@
        ("in_string" :> Sig(<<>>, "String")) @@
        ("in_int" :> Sig(<<>>, "Int")), EmptyMap)) @@
    ("Int" :> Descriptor("Object", EmptyMap, EmptyMap)) @@
    ("String" :> Descriptor("Object",
        ("length" :> Sig(<<>>, "Int")) @@
        ("concat" :> Sig(<< <<"s", "String">> >>, "String")) @@
        ("substr" :> Sig(<< <<"i", "Int">>, <<"l", "Int">> >>, "String")), EmptyMap)) @@
    ("Bool" :> Descriptor("Object", EmptyMap, EmptyMap))

basic_keys == <<"Object", "IO", "Int", "String", "Bool">>

(* A diagnostic of TypeChecker.errors: the message's template and its hole. *)
Diag(k, w) == [kind |-> k, what |-> w]

-----------------------------------------------------------------------------
(* TypeChecker.build_class_table *)

(* first pass, from class node i on: acc = [table, keys, errors] *)
RECURSIVE collect_classes(_, _, _)
collect_classes(classes, i, acc) ==
    IF i > Len(classes) THEN acc
    ELSE LET class_node == classes[i] IN
         IF class_node.name \in DOMAIN acc.table
         THEN collect_classes(classes, i + 1,
                 [acc EXCEPT !.errors =
                     Append(@, Diag("Duplicate class definition", class_node.name))])
         ELSE LET parent == IF class_node.parent # None
                            THEN class_node.parent ELSE "Object"
              IN collect_classes(classes, i + 1,
                   [acc EXCEPT
                      !.table = Put(@, class_node.name,
                                    Descriptor(parent, EmptyMap, EmptyMap)),
                      !.keys = Append(@, class_node.name)])

(* second pass, the features of one class node from feature j on *)
RECURSIVE collect_features(_, _, _, _)
collect_features(table, name, features, j) ==
    IF j > Len(features) THEN table
    ELSE LET feature == features[j]
             entry == table[name]
             t2 == IF feature.fkind = "Method"
                   THEN Put(table, name,
                          [entry EXCEPT !.methods =
                              Put(@, feature.name,
                                  Sig([k \in 1..Len(feature.formals) |->
                                          <<feature.formals[k].name,
                                            feature.formals[k].type>>],
                                      feature.return_type))])
                   ELSE Put(table, name,
                          [entry EXCEPT !.attributes =
                              Put(@, feature.name, feature.type)])
         IN collect_features(t2, name, features, j + 1)

RECURSIVE collect_members(_, _, _)
collect_members(classes, i, table) ==
    IF i > Len(classes) THEN table
    ELSE collect_members(classes, i + 1,
            collect_features(table, classes[i].name, classes[i].features, 1))

build_class_table(classes, table, keys, errs) ==
    LET p1 == collect_classes(classes, 1,
                 [table |-> table, keys |-> keys, errors |-> errs])
    IN [p1 EXCEPT !.table = collect_members(classes, 1, p1.table)]

-----------------------------------------------------------------------------
(* TypeChecker.check_inheritance_cycles *)

(* has_cycle returning True for a revisited class without appending *)
RECURSIVE has_cycle_silent(_, _, _)
has_cycle_silent(table, class_name, visited) ==
    IF class_name = "Object" THEN [cycle |-> FALSE, errors |-> <<>>, calls |-> 1]
    ELSE IF class_name \in visited THEN [cycle |-> TRUE, errors |-> <<>>, calls |-> 1]
    ELSE IF class_name \notin DOMAIN table
    THEN [cycle |-> TRUE, errors |-> <<Diag("Class not defined", class_name)>>, calls |-> 1]
    ELSE LET parent == table[class_name].parent IN
         IF parent # None
         THEN [has_cycle_silent(table, parent, visited \cup {class_name})
                  EXCEPT !.calls = @ + 1]
         ELSE [cycle |-> FALSE, errors |-> <<>>, calls |-> 1]

(* has_cycle without the test for a class that is not in the table *)
RECURSIVE has_cycle_no_undefined(_, _, _)
has_cycle_no_undefined(table, class_name, visited) ==
    IF class_name = "Object" THEN [cycle |-> FALSE, errors |-> <<>>, calls |-> 1]
    ELSE IF class_name \in visited
    THEN [cycle |-> TRUE,
          errors |-> <<Diag("Inheritance cycle detected involving class", class_name)>>, calls |-> 1]
    ELSE IF class_name \notin DOMAIN table THEN [cycle |-> FALSE, errors |-> <<>>, calls |-> 1]
    ELSE LET parent == table[class_name].parent IN
         IF parent # None
         THEN [has_cycle_no_undefined(table, parent, visited \cup {class_name})
                  EXCEPT !.calls = @ + 1]
         ELSE [cycle |-> FALSE, errors |-> <<>>, calls |-> 1]

(* has_cycle returning False for a revisited class *)
RECURSIVE has_cycle_revisit_accepted(_, _, _)
has_cycle_revisit_accepted(table, class_name, visited) ==
    IF class_name = "Object" THEN [cycle |-> FALSE, errors |-> <<>>, calls |-> 1]
    ELSE IF class_name \in visited THEN [cycle |-> FALSE, errors |-> <<>>, calls |-> 1]
    ELSE IF class_name \notin DOMAIN table
    THEN [cycle |-> TRUE, errors |-> <<Diag("Class not defined", class_name)>>, calls |-> 1]
    ELSE LET parent == table[class_name].parent IN
         IF parent # None
         THEN [has_cycle_revisit_accepted(table, parent, visited \cup {class_name})
                  EXCEPT !.calls = @ + 1]
         ELSE [cycle |-> FALSE, errors |-> <<>>, calls |-> 1]

(* has_cycle: [cycle |-> the result, errors |-> the diagnostics it appends, *)
(* calls |-> the number of calls of has_cycle made, this one included]      *)
RECURSIVE has_cycle(_, _, _)
has_cycle(table, class_name, visited) ==
    IF class_name = "Object" THEN [cycle |-> FALSE, errors |-> <<>>, calls |-> 1]
    ELSE IF class_name \in visited
    THEN [cycle |-> TRUE,
          errors |-> <<Diag("Inheritance cycle detected involving class", class_name)>>, calls |-> 1]
    ELSE IF class_name \notin DOMAIN table
    THEN [cycle |-> TRUE, errors |-> <<Diag("Class not defined", class_name)>>, calls |-> 1]
    ELSE LET parent == table[class_name].parent IN
         IF parent # None
         THEN [has_cycle(table, parent, visited \cup {class_name})
                  EXCEPT !.calls = @ + 1]
         ELSE [cycle |-> FALSE, errors |-> <<>>, calls |-> 1]

(* the loop over the keys of class_table, from key k on *)
RECURSIVE check_inheritance_cycles_from(_, _, _)
check_inheritance_cycles_from(table, keys, k) ==
    IF k > Len(keys) THEN [ok |-> TRUE, errors |-> <<>>]
    ELSE LET r == has_cycle(table, keys[k], {}) IN
         IF r.cycle THEN [ok |-> FALSE, errors |-> r.errors]
         ELSE check_inheritance_cycles_from(table, keys, k + 1)

check_inheritance_cycles(table, keys) ==
    check_inheritance_cycles_from(table, keys, 1)

-----------------------------------------------------------------------------
(* TypeChecker.is_subtype, TypeChecker.join_types *)

(* is_subtype looking at the type and its parent only *)
subtype_walk_parent_only(table, current, super_type) ==
    \/ current = super_type
    \/ /\ current \in DOMAIN table
       /\ table[current].parent = super_type

RECURSIVE subtype_walk(_, _, _)
subtype_walk(table, current, super_type) ==
    IF current = None THEN FALSE
    ELSE IF current = super_type THEN TRUE
    ELSE IF current \notin DOMAIN table THEN FALSE
    ELSE subtype_walk(table, table[current].parent, super_type)

is_subtype(table, cur_class, sub_type, super_type) ==
    IF sub_type = "SELF_TYPE" /\ super_type = "SELF_TYPE" THEN TRUE
    ELSE LET sub == IF sub_type = "SELF_TYPE" THEN cur_class ELSE sub_type
             sup == IF super_type = "SELF_TYPE" THEN cur_class ELSE super_type
         IN subtype_walk(table, sub, sup)

(* ancestors1 of join_types: the chain from current, itself first *)
RECURSIVE ancestors_of(_, _)
ancestors_of(table, current) ==
    IF current = None THEN <<>>
    ELSE IF current \notin DOMAIN table THEN <<current>>
    ELSE <<current>> \o ancestors_of(table, table[current].parent)

InSeq(x, s) == \E k \in 1..Len(s) : s[k] = x

(* join_types giving up when type2 itself is no ancestor of type1 *)
join_walk_no_climb(table, current, ancestors1) ==
    IF current # None /\ InSeq(current, ancestors1) THEN current ELSE "Object"

RECURSIVE join_walk(_, _, _)
join_walk(table, current, ancestors1) ==
    IF current = None THEN "Object"
    ELSE IF InSeq(current, ancestors1) THEN current
    ELSE IF current \notin DOMAIN table THEN "Object"
    ELSE join_walk(table, table[current].parent, ancestors1)

join_types(table, cur_class, type1, type2) ==
    IF type1 = type2 THEN type1
    ELSE LET t1 == IF type1 = "SELF_TYPE" THEN cur_class ELSE type1
             t2 == IF type2 = "SELF_TYPE" THEN cur_class ELSE type2
         IN join_walk(table, t2, ancestors_of(table, t1))

-----------------------------------------------------------------------------
(* TypeChecker.get_expr_type and the check_* methods it calls.             *)
(* ctx = [table, cls]: class_table and current_class, which they only read *)
(* st = [errors, local_vars, exc]: what they write; exc is the exception   *)
(* in flight, None when there is none                                      *)

Ty(t, st) == [ty |-> t, st |-> st]
AddErr(st, d) == [st EXCEPT !.errors = Append(@, d)]
Raise(st, e) == [ty |-> None, st |-> [st EXCEPT !.exc = e]]
Raised(r) == r.st.exc # None

AttributeErrorOp == "'BinaryOp' object has no attribute 'op'"
IndexErrorList == "list index out of range"

(* the class, from current upward, whose methods hold the method: the     *)
(* while loop of check_dispatch                                            *)
(* the lookup of check_dispatch looking at the receiver's class only *)
dispatch_lookup_own_class(table, current, method) ==
    IF current = None THEN [found |-> FALSE, unknown |-> FALSE, cls |-> None]
    ELSE IF current \notin DOMAIN table
    THEN [found |-> FALSE, unknown |-> TRUE, cls |-> current]
    ELSE IF method \in DOMAIN table[current].methods
    THEN [found |-> TRUE, unknown |-> FALSE, cls |-> current]
    ELSE [found |-> FALSE, unknown |-> FALSE, cls |-> None]

RECURSIVE dispatch_lookup(_, _, _)
dispatch_lookup(table, current, method) ==
    IF current = None THEN [found |-> FALSE, unknown |-> FALSE, cls |-> None]
    ELSE IF current \notin DOMAIN table
    THEN [found |-> FALSE, unknown |-> TRUE, cls |-> current]
    ELSE IF method \in DOMAIN table[current].methods
    THEN [found |-> TRUE, unknown |-> FALSE, cls |-> current]
    ELSE dispatch_lookup(table, table[current].parent, method)

RECURSIVE get_expr_type(_, _, _)
RECURSIVE check_dispatch_args(_, _, _, _, _)
RECURSIVE check_let_bindings(_, _, _, _)
RECURSIVE check_case_branches(_, _, _, _, _, _)
RECURSIVE check_block(_, _, _, _)

(* the argument loop of check_dispatch, from argument k on; ty is None    *)
(* while no argument has been rejected                                     *)
check_dispatch_args(ctx, expr, param_types, k, st) ==
    IF k > Len(param_types) \/ k > Len(expr.args) THEN Ty(None, st)
    ELSE LET a == get_expr_type(ctx, expr.args[k], st) IN
         IF Raised(a) THEN a
         ELSE IF ~is_subtype(ctx.table, ctx.cls, a.ty, param_types[k][2])
         THEN Ty("Object", AddErr(a.st, Diag("In call, argument type not expected", expr.method)))
         ELSE check_dispatch_args(ctx, expr, param_types, k + 1, a.st)

check_dispatch(ctx, expr, st) ==
    LET o == IF expr.obj.kind = "None" THEN Ty(ctx.cls, st)
             ELSE get_expr_type(ctx, expr.obj, st)
    IN IF Raised(o) THEN o
       ELSE
       LET obj_type == IF o.ty = "SELF_TYPE" THEN ctx.cls ELSE o.ty
           l == dispatch_lookup(ctx.table, obj_type, expr.method)
       IN IF l.unknown
          THEN Ty("Object", AddErr(o.st, Diag("Unknown class", l.cls)))
          ELSE IF ~l.found
          THEN Ty("Object", AddErr(o.st, Diag("Method not found in class or its ancestors", expr.method)))
          ELSE LET sig == ctx.table[l.cls].methods[expr.method] IN
               IF Len(sig.params) # Len(expr.args)
               THEN Ty("Object", AddErr(o.st, Diag("Method expects other number of arguments", expr.method)))
               ELSE LET a == check_dispatch_args(ctx, expr, sig.params, 1, o.st) IN
                    IF Raised(a) \/ a.ty # None THEN a
                    ELSE Ty(IF sig.ret # "SELF_TYPE" THEN sig.ret ELSE obj_type, a.st)

check_conditional(ctx, expr, st) ==
    LET p == get_expr_type(ctx, expr.predicate, st) IN
    IF Raised(p) THEN p
    ELSE IF p.ty # "Bool"
    THEN Ty("Object", AddErr(p.st, Diag("If condition must be of type Bool", "")))
    ELSE LET t == get_expr_type(ctx, expr.then_expr, p.st) IN
         IF Raised(t) THEN t
         ELSE LET e == get_expr_type(ctx, expr.else_expr, t.st) IN
              IF Raised(e) THEN e
              ELSE Ty(join_types(ctx.table, ctx.cls, t.ty, e.ty), e.st)

(* the binding loop of check_let, from binding k on; ty is None while no  *)
(* initializer has been rejected                                           *)
check_let_bindings(ctx, bindings, k, st) ==
    IF k > Len(bindings) THEN Ty(None, st)
    ELSE LET name == bindings[k][1]
             type_name == bindings[k][2]
             init == bindings[k][3]
             i == IF init.kind # "None" THEN get_expr_type(ctx, init, st)
                  ELSE Ty(None, st)
         IN IF Raised(i) THEN i
            ELSE IF init.kind # "None" /\ ~is_subtype(ctx.table, ctx.cls, i.ty, type_name)
            THEN Ty("Object", AddErr(i.st, Diag("Let initialization type differs from declared", name)))
            ELSE check_let_bindings(ctx, bindings, k + 1,
                    [i.st EXCEPT !.local_vars = Put(@, name, type_name)])

check_let(ctx, expr, st) ==
    LET old_vars == st.local_vars
        b == check_let_bindings(ctx, expr.bindings, 1, st)
    IN IF Raised(b) \/ b.ty # None THEN b
       ELSE LET body == get_expr_type(ctx, expr.body, b.st) IN
            IF Raised(body) THEN body
            ELSE Ty(body.ty, [body.st EXCEPT !.local_vars = old_vars])

(* the branch loop of check_case, from branch k on: ty is the list of     *)
(* branch types, or "Object" when a duplicate made check_case return      *)
(* the branch loop of check_case leaving each branch's variable in scope *)
RECURSIVE check_case_branches_leaky(_, _, _, _, _, _)
check_case_branches_leaky(ctx, cases, k, seen_types, branch_types, st) ==
    IF k > Len(cases) THEN Ty(branch_types, st)
    ELSE LET branch == cases[k] IN
         IF branch.type \in seen_types
         THEN Ty("Object", AddErr(st, Diag("Duplicate branch type in case expression", branch.type)))
         ELSE LET b == get_expr_type(ctx, branch.expr,
                          [st EXCEPT !.local_vars = Put(@, branch.name, branch.type)])
              IN IF Raised(b) THEN b
                 ELSE check_case_branches_leaky(ctx, cases, k + 1,
                         seen_types \cup {branch.type}, Append(branch_types, b.ty), b.st)

check_case_branches(ctx, cases, k, seen_types, branch_types, st) ==
    IF k > Len(cases) THEN Ty(branch_types, st)
    ELSE LET branch == cases[k] IN
         IF branch.type \in seen_types
         THEN Ty("Object", AddErr(st, Diag("Duplicate branch type in case expression", branch.type)))
         ELSE LET old_vars == st.local_vars
                  b == get_expr_type(ctx, branch.expr,
                          [st EXCEPT !.local_vars = Put(@, branch.name, branch.type)])
              IN IF Raised(b) THEN b
                 ELSE check_case_branches(ctx, cases, k + 1,
                         seen_types \cup {branch.type}, Append(branch_types, b.ty),
                         [b.st EXCEPT !.local_vars = old_vars])

RECURSIVE join_all(_, _, _, _)
join_all(ctx, result_type, branch_types, k) ==
    IF k > Len(branch_types) THEN result_type
    ELSE join_all(ctx, join_types(ctx.table, ctx.cls, result_type, branch_types[k]),
                  branch_types, k + 1)

check_case(ctx, expr, st) ==
    LET s == get_expr_type(ctx, expr.expr, st) IN
    IF Raised(s) THEN s
    ELSE LET b == check_case_branches(ctx, expr.cases, 1, {}, <<>>, s.st) IN
         IF Raised(b) \/ b.ty = "Object" THEN b
         ELSE IF Len(b.ty) = 0 THEN Raise(b.st, IndexErrorList)
         ELSE Ty(join_all(ctx, b.ty[1], b.ty, 2), b.st)

(* the Block branch of get_expr_type, from expression k on *)
check_block(ctx, expressions, k, st) ==
    IF Len(expressions) = 0 THEN Raise(st, IndexErrorList)
    ELSE LET e == get_expr_type(ctx, expressions[k], st) IN
         IF Raised(e) \/ k = Len(expressions) THEN e
         ELSE check_block(ctx, expressions, k + 1, e.st)

get_expr_type(ctx, expr, st) ==
    IF expr.kind = "IntegerConstant" THEN Ty("Int", st)
    ELSE IF expr.kind = "StringConstant" THEN Ty("String", st)
    ELSE IF expr.kind = "BooleanConstant" THEN Ty("Bool", st)
    ELSE IF expr.kind = "Identifier"
    THEN IF expr.name \in DOMAIN st.local_vars
         THEN Ty(st.local_vars[expr.name], st)
         ELSE IF expr.name \in DOMAIN ctx.table[ctx.cls].attributes
         THEN Ty(ctx.table[ctx.cls].attributes[expr.name], st)
         ELSE Ty("Object", AddErr(st, Diag("Undefined identifier", expr.name)))
    ELSE IF expr.kind = "BinaryOp" THEN Raise(st, AttributeErrorOp)
    ELSE IF expr.kind = "Dispatch" THEN check_dispatch(ctx, expr, st)
    ELSE IF expr.kind = "Conditional" THEN check_conditional(ctx, expr, st)
    ELSE IF expr.kind = "Let" THEN check_let(ctx, expr, st)
    ELSE IF expr.kind = "New"
    THEN IF expr.type \notin DOMAIN ctx.table /\ expr.type # "SELF_TYPE"
         THEN Ty("Object", AddErr(st, Diag("Cannot instantiate undefined class", expr.type)))
         ELSE Ty(expr.type, st)
    ELSE IF expr.kind = "IsVoid"
    THEN LET e == get_expr_type(ctx, expr.expr, st) IN
         IF Raised(e) THEN e ELSE Ty("Bool", e.st)
    ELSE IF expr.kind = "Block" THEN check_block(ctx, expr.expressions, 1, st)
    ELSE IF expr.kind = "Case" THEN check_case(ctx, expr, st)
    ELSE IF expr.kind = "Self" THEN Ty("SELF_TYPE", st)
    ELSE Ty("Object", AddErr(st, Diag("Unknown expression type", expr.kind)))

-----------------------------------------------------------------------------
(* TypeChecker.check_method, check_attribute, check_class: they return    *)
(* [ok, st, checked], ok being the method's return value                   *)

RECURSIVE bind_formals(_, _, _)
bind_formals(formals, k, lv) ==
    IF k > Len(formals) THEN lv
    ELSE bind_formals(formals, k + 1, Put(lv, formals[k].name, formals[k].type))

(* check_method comparing the two types for equality instead of asking     *)
(* is_subtype                                                              *)
check_method_no_subtyping(ctx, method, st) ==
    LET b == get_expr_type(ctx, method.body,
                [st EXCEPT !.local_vars = bind_formals(method.formals, 1, EmptyMap)])
        declared_type == method.return_type
    IN IF Raised(b) THEN [ok |-> FALSE, st |-> b.st]
       ELSE IF declared_type = "SELF_TYPE" /\ (b.ty = ctx.cls \/ b.ty = "SELF_TYPE")
       THEN [ok |-> TRUE, st |-> b.st]
       ELSE IF b.ty # declared_type
       THEN [ok |-> FALSE,
             st |-> AddErr(b.st, Diag("Method body type differs from declared return type", method.name))]
       ELSE [ok |-> TRUE, st |-> b.st]

check_method(ctx, method, st) ==
    LET b == get_expr_type(ctx, method.body,
                [st EXCEPT !.local_vars = bind_formals(method.formals, 1, EmptyMap)])
        declared_type == method.return_type
    IN IF Raised(b) THEN [ok |-> FALSE, st |-> b.st]
       ELSE IF declared_type = "SELF_TYPE" /\ (b.ty = ctx.cls \/ b.ty = "SELF_TYPE")
       THEN [ok |-> TRUE, st |-> b.st]
       ELSE IF ~is_subtype(ctx.table, ctx.cls, b.ty, declared_type)
       THEN [ok |-> FALSE,
             st |-> AddErr(b.st, Diag("Method body type differs from declared return type", method.name))]
       ELSE [ok |-> TRUE, st |-> b.st]

(* check_attribute returning False without appending its diagnostic *)
check_attribute_silent(ctx, attr, st) ==
    IF attr.init.kind = "None" THEN [ok |-> TRUE, st |-> st]
    ELSE LET i == get_expr_type(ctx, attr.init, st) IN
         IF Raised(i) THEN [ok |-> FALSE, st |-> i.st]
         ELSE IF ~is_subtype(ctx.table, ctx.cls, i.ty, attr.type)
         THEN [ok |-> FALSE, st |-> i.st]
         ELSE [ok |-> TRUE, st |-> i.st]

check_attribute(ctx, attr, st) ==
    IF attr.init.kind = "None" THEN [ok |-> TRUE, st |-> st]
    ELSE LET i == get_expr_type(ctx, attr.init, st) IN
         IF Raised(i) THEN [ok |-> FALSE, st |-> i.st]
         ELSE IF ~is_subtype(ctx.table, ctx.cls, i.ty, attr.type)
         THEN [ok |-> FALSE,
               st |-> AddErr(i.st, Diag("Attribute initialization type differs from declared", attr.name))]
         ELSE [ok |-> TRUE, st |-> i.st]

(* does check_class hand an expression of the feature to get_expr_type *)
HasBody(feature) == feature.fkind = "Method" \/ feature.init.kind # "None"

(* the feature loop of check_class, from feature j on *)
RECURSIVE check_class_from(_, _, _, _, _)
check_class_from(ctx, features, j, st, chk) ==
    IF j > Len(features) THEN [ok |-> TRUE, st |-> st, checked |-> chk]
    ELSE LET feature == features[j]
             r == IF feature.fkind = "Method" THEN check_method(ctx, feature, st)
                  ELSE check_attribute(ctx, feature, st)
             chk2 == IF HasBody(feature) THEN Append(chk, <<ctx.cls, feature.name>>)
                     ELSE chk
         IN IF ~r.ok THEN [ok |-> FALSE, st |-> r.st, checked |-> chk2]
            ELSE check_class_from(ctx, features, j + 1, r.st, chk2)

check_class(ctx, class_node, st, chk) ==
    check_class_from(ctx, class_node.features, 1, st, chk)

-----------------------------------------------------------------------------
(* interpreter/evaluator.py: runtime values.  A slot of COOLObject.__attrs__ *)
(* holds None, a value, or (t = "expr") the init node of feature v of class  *)
(* s, which _init_attrs stores unevaluated.                                   *)
IntV(n) == [t |-> "int", v |-> n, s |-> ""]
BoolV(b) == [t |-> "bool", v |-> IF b THEN 1 ELSE 0, s |-> ""]
StrV(x) == [t |-> "str", v |-> 0, s |-> x]
VoidV == [t |-> "None", v |-> 0, s |-> ""]
ObjV(id) == [t |-> "COOLObject", v |-> id, s |-> ""]
ExprV(cls, j) == [t |-> "expr", v |-> j, s |-> cls]

(* Python truth value of a runtime value *)
Truthy(val) ==
    IF val.t \in {"int", "bool"} THEN val.v # 0
    ELSE IF val.t = "None" THEN FALSE
    ELSE IF val.t = "str" THEN val.s # ""
    ELSE TRUE

(* the evaluation state: heap of COOLObjects, arena of Environments,      *)
(* number of eval_expr calls made                                          *)
Ok(S, val) == [S |-> S, status |-> "ok", val |-> val, exc |-> None, msg |-> <<>>]
Throw(S, exc, msg) == [S |-> S, status |-> "raise", val |-> VoidV, exc |-> exc, msg |-> msg]

(* Environment *)
Environment(S, parent) ==
    [S EXCEPT !.envs = Append(@, [vars |-> EmptyMap, parent |-> parent])]

RECURSIVE env_get(_, _, _)
env_get(envs, e, name) ==
    IF name \in DOMAIN envs[e].vars
    THEN [found |-> TRUE, val |-> envs[e].vars[name]]
    ELSE IF envs[e].parent # 0 THEN env_get(envs, envs[e].parent, name)
    ELSE [found |-> FALSE, val |-> VoidV]

RECURSIVE env_set(_, _, _, _)
env_set(envs, e, name, value) ==
    IF name \in DOMAIN envs[e].vars THEN [envs EXCEPT ![e].vars = Put(@, name, value)]
    ELSE IF envs[e].parent # 0 THEN env_set(envs, envs[e].parent, name, value)
    ELSE [envs EXCEPT ![e].vars = Put(@, name, value)]

(* Evaluator.__init__: collect_classes, a later class node of a name      *)
(* replacing an earlier one                                                *)
RECURSIVE collect_class_defs(_, _, _)
collect_class_defs(classes, i, defs) ==
    IF i > Len(classes) THEN defs
    ELSE collect_class_defs(classes, i + 1, Put(defs, classes[i].name, classes[i]))

(* COOLObject._init_attrs: acc = [attrs, order, exc]; a parent chain that *)
(* returns to a class recurses until RecursionError                        *)
RECURSIVE init_features(_, _, _, _)
init_features(class_name, features, j, acc) ==
    IF j > Len(features) THEN acc
    ELSE LET feat == features[j] IN
         IF feat.fkind = "Attribute"
         THEN init_features(class_name, features, j + 1,
                 [acc EXCEPT
                    !.attrs = Put(@, feat.name,
                                  IF feat.init.kind = "None" THEN VoidV
                                  ELSE ExprV(class_name, j)),
                    !.order = IF feat.name \in DOMAIN acc.attrs THEN @
                              ELSE Append(@, feat.name)])
         ELSE init_features(class_name, features, j + 1, acc)

RECURSIVE init_attrs(_, _, _, _)
init_attrs(defs, class_name, visited, acc) ==
    IF class_name \notin DOMAIN defs
    THEN [acc EXCEPT !.exc = "KeyError", !.msg = <<class_name>>]
    ELSE IF class_name \in visited
    THEN [acc EXCEPT !.exc = "RecursionError", !.msg = <<>>]
    ELSE LET class_def == defs[class_name]
             p == IF class_def.parent # None
                  THEN init_attrs(defs, class_def.parent, visited \cup {class_name}, acc)
                  ELSE acc
         IN IF p.exc # None THEN p
            ELSE init_features(class_name, class_def.features, 1, p)

(* COOLObject(class_name, class_defs): the object allocated on the heap *)
COOLObject(defs, class_name, S) ==
    LET a == init_attrs(defs, class_name, {},
                [attrs |-> EmptyMap, order |-> <<>>, exc |-> None, msg |-> <<>>])
    IN IF a.exc # None THEN Throw(S, a.exc, a.msg)
       ELSE Ok([S EXCEPT !.heap = Append(@, [class_name |-> class_name,
                                              attrs |-> a.attrs, order |-> a.order])],
               ObjV(Len(S.heap) + 1))

(* COOLObject.get_ancestors *)
RECURSIVE get_ancestors(_, _, _)
get_ancestors(defs, c, visited) ==
    IF c = None THEN [names |-> <<>>, exc |-> None, msg |-> <<>>]
    ELSE IF c \notin DOMAIN defs THEN [names |-> <<c>>, exc |-> "KeyError", msg |-> <<c>>]
    ELSE IF c \in visited THEN [names |-> <<>>, exc |-> "MemoryError", msg |-> <<>>]
    ELSE LET r == get_ancestors(defs, defs[c].parent, visited \cup {c}) IN
         [r EXCEPT !.names = <<c>> \o @]

(* Evaluator._find_method: the first feature of that name, from class_def *)
(* upward; NoExpr stands for its None                                      *)
FirstNamed(features, name) ==
    IF \E j \in 1..Len(features) : features[j].name = name
    THEN CHOOSE j \in 1..Len(features) :
            /\ features[j].name = name
            /\ \A k \in 1..(j - 1) : features[k].name # name
    ELSE 0

RECURSIVE find_method(_, _, _, _)
find_method(defs, cname, method_name, visited) ==
    IF cname = None \/ cname \notin DOMAIN defs THEN [found |-> FALSE, loops |-> FALSE]
    ELSE IF cname \in visited THEN [found |-> FALSE, loops |-> TRUE]
    ELSE LET j == FirstNamed(defs[cname].features, method_name) IN
         IF j # 0 THEN [found |-> TRUE, loops |-> FALSE, f |-> defs[cname].features[j]]
         ELSE find_method(defs, defs[cname].parent, method_name, visited \cup {cname})

(* cool_ast/nodes.py defining the UnaryOp that eval_expr imports *)
NodesExports_with_UnaryOp ==
    {"ASTNode", "Program", "Class", "Method", "Attribute", "Formal",
     "IntegerConstant", "StringConstant", "BooleanConstant", "Identifier",
     "Assign", "Dispatch", "StaticDispatch", "Conditional", "Let", "LetBinding",
     "Block", "Case", "Branch", "New", "Not", "Negate", "IsVoid", "BinaryOp",
     "Self", "Loop", "UnaryOp"}

(* cool_ast/nodes.py: the names the module defines *)
NodesExports ==
    {"ASTNode", "Program", "Class", "Method", "Attribute", "Formal",
     "IntegerConstant", "StringConstant", "BooleanConstant", "Identifier",
     "Assign", "Dispatch", "StaticDispatch", "Conditional", "Let", "LetBinding",
     "Block", "Case", "Branch", "New", "Not", "Negate", "IsVoid", "BinaryOp",
     "Self", "Loop"}

(* the names eval_expr imports from cool_ast.nodes on each call *)
EvalImports ==
    <<"IntegerConstant", "BooleanConstant", "StringConstant",
      "BinaryOp", "UnaryOp", "Identifier", "Conditional",
      "Let", "Dispatch", "New", "Loop", "Case", "Block", "Branch", "Assign", "Self">>

(* the first imported name the module lacks, None when it has them all *)
MissingImport ==
    IF \A k \in 1..Len(EvalImports) : EvalImports[k] \in NodesExports THEN None
    ELSE EvalImports[CHOOSE k \in 1..Len(EvalImports) :
                        /\ EvalImports[k] \notin NodesExports
                        /\ \A m \in 1..(k - 1) : EvalImports[m] \in NodesExports]

-----------------------------------------------------------------------------
(* Evaluator.eval_expr *)
RECURSIVE eval_expr(_, _, _, _)
RECURSIVE eval_args(_, _, _, _, _, _)
RECURSIVE eval_bindings(_, _, _, _, _)
RECURSIVE eval_block(_, _, _, _, _, _)
RECURSIVE eval_initializers(_, _, _, _, _)

(* is 'self' in env.vars and a COOLObject *)
SelfObject(S, env) ==
    IF "self" \in DOMAIN S.envs[env].vars /\ S.envs[env].vars["self"].t = "COOLObject"
    THEN S.envs[env].vars["self"].v ELSE 0

(* the formals bound to the argument values, as eval_expr (Dispatch) and  *)
(* eval_method do                                                          *)
RECURSIVE bind_params(_, _, _, _, _)
bind_params(envs, env, formals, arg_vals, k) ==
    IF k > Len(formals) \/ k > Len(arg_vals) THEN envs
    ELSE bind_params(env_set(envs, env, formals[k].name, arg_vals[k]),
                     env, formals, arg_vals, k + 1)

(* [eval_expr(arg, env) for arg in args]: val is the list of values *)
eval_args(defs, args, k, env, vals, S) ==
    IF k > Len(args) THEN Ok(S, vals)
    ELSE LET a == eval_expr(defs, args[k], env, S) IN
         IF a.status # "ok" THEN a
         ELSE eval_args(defs, args, k + 1, env, Append(vals, a.val), a.S)

(* the binding loop of Let *)
eval_bindings(defs, bindings, k, let_env, S) ==
    IF k > Len(bindings) THEN Ok(S, VoidV)
    ELSE LET name == bindings[k][1]
             init == bindings[k][3]
             i == IF init.kind # "None" THEN eval_expr(defs, init, let_env, S)
                  ELSE Ok(S, VoidV)
         IN IF i.status # "ok" THEN i
            ELSE eval_bindings(defs, bindings, k + 1, let_env,
                    [i.S EXCEPT !.envs = env_set(@, let_env, name, i.val)])

(* the loop of Block *)
eval_block(defs, expressions, k, env, value, S) ==
    IF k > Len(expressions) THEN Ok(S, value)
    ELSE LET e == eval_expr(defs, expressions[k], env, S) IN
         IF e.status # "ok" THEN e
         ELSE eval_block(defs, expressions, k + 1, env, e.val, e.S)

(* the loop of New over obj.__attrs__.items(), from slot k of its order on *)
eval_initializers(defs, obj, k, init_env, S) ==
    IF k > Len(S.heap[obj].order) THEN Ok(S, ObjV(obj))
    ELSE LET attr_name == S.heap[obj].order[k]
             init_expr == S.heap[obj].attrs[attr_name]
         IN IF init_expr.t = "None"
            THEN eval_initializers(defs, obj, k + 1, init_env, S)
            ELSE LET i == IF init_expr.t = "expr"
                          THEN eval_expr(defs, defs[init_expr.s].features[init_expr.v].init,
                                         init_env, S)
                          ELSE IF MissingImport # None
                          THEN Throw([S EXCEPT !.calls = @ + 1], "ImportError", <<MissingImport>>)
                          ELSE IF init_expr.t \in {"int", "bool"}
                          THEN Ok([S EXCEPT !.calls = @ + 1], init_expr)
                          ELSE IF init_expr.t = "str"
                          THEN LET g == env_get(S.envs, init_env, init_expr.s) IN
                               IF g.found THEN Ok([S EXCEPT !.calls = @ + 1], g.val)
                               ELSE IF init_expr.s \in DOMAIN S.heap[obj].attrs
                               THEN Ok([S EXCEPT !.calls = @ + 1],
                                       S.heap[obj].attrs[init_expr.s])
                               ELSE Throw([S EXCEPT !.calls = @ + 1], "RuntimeError",
                                          <<"Undefined variable", init_expr.s>>)
                          ELSE Throw([S EXCEPT !.calls = @ + 1], "RuntimeError",
                                     <<"Unsupported expression type">>)
                 IN IF i.status # "ok" THEN i
                    ELSE eval_initializers(defs, obj, k + 1, init_env,
                            [i.S EXCEPT !.heap[obj].attrs[attr_name] = i.val])

(* the first branch, most specific ancestor first, whose type is that     *)
(* ancestor: the nested loops of Case; 0 when there is none                *)
RECURSIVE select_branch(_, _, _)
select_branch(val_types, cases, k) ==
    IF k > Len(val_types) THEN 0
    ELSE IF \E b \in 1..Len(cases) : cases[b].type = val_types[k]
    THEN CHOOSE b \in 1..Len(cases) :
            /\ cases[b].type = val_types[k]
            /\ \A c \in 1..(b - 1) : cases[c].type # val_types[k]
    ELSE select_branch(val_types, cases, k + 1)

eval_dispatch(defs, expr, env, S) ==
    LET o == IF expr.obj.kind # "None" THEN eval_expr(defs, expr.obj, env, S)
             ELSE LET g == env_get(S.envs, env, "self") IN
                  IF g.found THEN Ok(S, g.val)
                  ELSE Throw(S, "RuntimeError", <<"Undefined variable", "self">>)
    IN IF o.status # "ok" THEN o
       ELSE IF o.val.t # "COOLObject" THEN Throw(o.S, "RuntimeError", <<"Dispatch on non-object">>)
       ELSE
       LET class_name == o.S.heap[o.val.v].class_name
           m == find_method(defs, class_name, expr.method, {})
       IN IF m.loops THEN Throw(o.S, "NonTermination", <<>>)
          ELSE IF ~m.found
          THEN Throw(o.S, "RuntimeError", <<"Method not found in class", expr.method, class_name>>)
          ELSE
          LET S1 == Environment(o.S, 0)
              method_env == Len(S1.envs)
              S2 == [S1 EXCEPT !.envs = env_set(@, method_env, "self", o.val)]
              a == eval_args(defs, expr.args, 1, env, <<>>, S2)
          IN IF a.status # "ok" THEN a
             ELSE IF m.f.fkind # "Method"
             THEN Throw(a.S, "AttributeError", <<"'Attribute' object has no attribute 'params'">>)
             ELSE eval_expr(defs, m.f.body, method_env,
                     [a.S EXCEPT !.envs = bind_params(@, method_env, m.f.formals, a.val, 1)])

eval_new(defs, expr, env, S) ==
    IF expr.type \notin DOMAIN defs
    THEN Throw(S, "RuntimeError", <<"Class not found", expr.type>>)
    ELSE LET o == COOLObject(defs, expr.type, S) IN
         IF o.status # "ok" THEN o
         ELSE LET S1 == Environment(o.S, 0)
                  init_env == Len(S1.envs)
                  S2 == [S1 EXCEPT !.envs = env_set(@, init_env, "self", o.val)]
              IN eval_initializers(defs, o.val.v, 1, init_env, S2)

eval_case(defs, expr, env, S) ==
    LET val == eval_expr(defs, expr.expr, env, S) IN
    IF val.status # "ok" THEN val
    ELSE IF val.val.t # "COOLObject" THEN Throw(val.S, "RuntimeError", <<"Case on non-object">>)
    ELSE LET anc == get_ancestors(defs, val.S.heap[val.val.v].class_name, {}) IN
         IF anc.exc # None THEN Throw(val.S, anc.exc, anc.msg)
         ELSE LET b == select_branch(anc.names, expr.cases, 1) IN
              IF b = 0 THEN Throw(val.S, "RuntimeError", <<"No matching branch in case">>)
              ELSE LET S1 == Environment(val.S, env)
                       case_env == Len(S1.envs)
                   IN eval_expr(defs, expr.cases[b].expr, case_env,
                         [S1 EXCEPT !.envs = env_set(@, case_env, expr.cases[b].name, val.val)])

eval_assign(defs, expr, env, S) ==
    LET value == eval_expr(defs, expr.expr, env, S) IN
    IF value.status # "ok" THEN value
    ELSE LET self_obj == SelfObject(value.S, env) IN
         IF expr.name # "self" /\ self_obj # 0
               /\ expr.name \in DOMAIN value.S.heap[self_obj].attrs
         THEN Ok([value.S EXCEPT !.heap[self_obj].attrs[expr.name] = value.val], value.val)
         ELSE Ok([value.S EXCEPT !.envs = env_set(@, env, expr.name, value.val)], value.val)

eval_identifier(expr, env, S) ==
    LET self_obj == SelfObject(S, env) IN
    IF self_obj # 0 /\ expr.name \in DOMAIN S.heap[self_obj].attrs
    THEN Ok(S, S.heap[self_obj].attrs[expr.name])
    ELSE LET g == env_get(S.envs, env, expr.name) IN
         IF g.found THEN Ok(S, g.val)
         ELSE Throw(S, "RuntimeError", <<"Undefined variable or attribute", expr.name>>)

eval_expr(defs, expr, env, S0) ==
    LET S == [S0 EXCEPT !.calls = @ + 1] IN
    IF MissingImport # None THEN Throw(S, "ImportError", <<MissingImport>>)
    ELSE IF expr.kind = "IntegerConstant" THEN Ok(S, IntV(expr.value))
    ELSE IF expr.kind = "BooleanConstant" THEN Ok(S, BoolV(expr.value))
    ELSE IF expr.kind = "StringConstant" THEN Ok(S, StrV(expr.value))
    ELSE IF expr.kind = "Self"
    THEN LET g == env_get(S.envs, env, "self") IN
         IF g.found THEN Ok(S, g.val)
         ELSE Throw(S, "RuntimeError", <<"Undefined variable", "self">>)
    ELSE IF expr.kind = "Identifier" THEN eval_identifier(expr, env, S)
    ELSE IF expr.kind = "BinaryOp"
    THEN LET lval == eval_expr(defs, expr.left, env, S) IN
         IF lval.status # "ok" THEN lval
         ELSE LET rval == eval_expr(defs, expr.right, env, lval.S) IN
              IF rval.status # "ok" THEN rval
              ELSE Throw(rval.S, "AttributeError", <<AttributeErrorOp>>)
    ELSE IF expr.kind = "Conditional"
    THEN LET condition == eval_expr(defs, expr.predicate, env, S) IN
         IF condition.status # "ok" THEN condition
         ELSE IF Truthy(condition.val)
         THEN eval_expr(defs, expr.then_expr, env, condition.S)
         ELSE eval_expr(defs, expr.else_expr, env, condition.S)
    ELSE IF expr.kind = "Let"
    THEN LET S1 == Environment(S, env)
             let_env == Len(S1.envs)
             b == eval_bindings(defs, expr.bindings, 1, let_env, S1)
         IN IF b.status # "ok" THEN b
            ELSE eval_expr(defs, expr.body, let_env, b.S)
    ELSE IF expr.kind = "Dispatch" THEN eval_dispatch(defs, expr, env, S)
    ELSE IF expr.kind = "New" THEN eval_new(defs, expr, env, S)
    ELSE IF expr.kind = "Block" THEN eval_block(defs, expr.expressions, 1, env, VoidV, S)
    ELSE IF expr.kind = "Case" THEN eval_case(defs, expr, env, S)
    ELSE IF expr.kind = "Assign" THEN eval_assign(defs, expr, env, S)
    ELSE Throw(S, "RuntimeError", <<"Unsupported expression type">>)

(* Evaluator.eval_method *)
eval_method(defs, method, args, env, S) ==
    IF method.fkind # "Method"
    THEN Throw(S, "AttributeError", <<"'Attribute' object has no attribute 'params'">>)
    ELSE eval_expr(defs, method.body, env,
            [S EXCEPT !.envs = bind_params(@, env, method.formals, args, 1)])

(* Evaluator.eval: S holds global_env as Environment 1 *)
eval(defs, S) ==
    IF "Main" \notin DOMAIN defs THEN Throw(S, "RuntimeError", <<"No Main class found">>)
    ELSE LET main_class == defs["Main"]
             j == FirstNamed(main_class.features, "main")
         IN IF j = 0 THEN Throw(S, "RuntimeError", <<"No main method found in Main class">>)
            ELSE LET main_obj == COOLObject(defs, "Main", S) IN
                 IF main_obj.status # "ok" THEN main_obj
                 ELSE LET S1 == Environment(main_obj.S, 1)
                          env == Len(S1.envs)
                          S2 == [S1 EXCEPT !.envs = env_set(@, env, "self", main_obj.val)]
                      IN eval_method(defs, main_class.features[j], <<>>, env, S2)

-----------------------------------------------------------------------------
(* The programs checked *)
ClassNames == <<"A", "B", "SELF_TYPE", "C">>
NamesUpTo(n) == {ClassNames[k] : k \in 1..(IF n < Len(ClassNames) THEN n ELSE Len(ClassNames))}

(* featureless hierarchies: n classes, each inheriting nothing, an        *)
(* undeclared class, a built-in, or one of the n classes                   *)
Hierarchies ==
    UNION {{[i \in 1..n |-> Class(ClassNames[i], p[i], <<>>)] :
              p \in [1..n -> {None, "U", "Int"} \cup NamesUpTo(n)]} :
           n \in 1..(IF MaxClasses < Len(ClassNames) THEN MaxClasses ELSE Len(ClassNames))}

(* the programs of test_operational_semantics.py and test_type_checker.py *)
(* and variations of them: class A, class B inherits A, class Main         *)
FeaturesA ==
    {<<>>,
     <<Attribute("x", "Int", IntegerConstant(5)),
       Method("get_x", <<>>, "Int", Identifier("x"))>>,
     <<Method("foo", <<>>, "Int", IntegerConstant(1))>>,
     <<Method("f", <<>>, "Int", StringConstant("s")),
       Method("g", <<>>, "Int", Identifier("y"))>>,
     <<Attribute("x", "Int", StringConstant("s")),
       Method("g", <<>>, "Int", IntegerConstant(1))>>}

FeaturesMain ==
    {<<Method("main", <<>>, "Int", IntegerConstant(42))>>,
     <<Method("main", <<>>, "Int", Dispatch(Self, "foo", <<>>)),
       Method("foo", <<>>, "Int", IntegerConstant(42))>>,
     <<Method("main", <<>>, "Int", Dispatch(New("A"), "get_x", <<>>))>>,
     <<Method("main", <<>>, "Int",
          Case(New("B"), <<Branch("a", "A", IntegerConstant(1)),
                           Branch("b", "B", IntegerConstant(2))>>))>>,
     <<Method("main", <<>>, "Int",
          Case(New("B"), <<Branch("m", "Main", IntegerConstant(1))>>))>>,
     <<Attribute("x", "Int", IntegerConstant(5)),
       Method("main", <<>>, "Int", Identifier("x"))>>,
     <<Attribute("x", "Int", IntegerConstant(5)),
       Method("main", <<>>, "Int",
          Let(<< <<"y", "Int", IntegerConstant(1)>> >>, Identifier("x")))>>,
     <<Method("main", <<>>, "IO", Dispatch(NoExpr, "out_string", <<StringConstant("hi")>>))>>,
     <<Method("main", <<>>, "SELF_TYPE", Self)>>,
     <<Method("main", <<>>, "Int", StringConstant("s")),
       Method("foo", <<>>, "Int", Identifier("z"))>>,
     <<Method("main", <<>>, "Int",
          BinaryOp("+", IntegerConstant(2), IntegerConstant(3)))>>,
     <<Method("foo", <<>>, "Int", IntegerConstant(42))>>}

TestPrograms ==
    {<<Class("A", pa, fa), Class("B", "A", <<>>), Class("Main", pm, fm)>> :
        pa \in {None, "Object", "B", "U"}, pm \in {None, "Object", "IO"},
        fa \in FeaturesA, fm \in FeaturesMain}

(* further programs of the same shape, <<features of A, features of B,    *)
(* features of Main>>: class A, class B inherits A, class Main             *)
FooReturns(n) == Method("foo", <<>>, "Int", IntegerConstant(n))
MainReturns(t, body) == <<Method("main", <<>>, t, body)>>
NewBFoo == Dispatch(New("B"), "foo", <<>>)

(* (new B).foo(), foo declared in A and overridden or not in B *)
DispatchScenarios ==
    {<< <<FooReturns(1)>>, <<FooReturns(2)>>, MainReturns("Int", NewBFoo) >>,
     << <<FooReturns(1)>>, <<>>, MainReturns("Int", NewBFoo) >>}

(* methods whose body conforms to the declared return type in several     *)
(* ways (class A), and methods whose body does or does not (class B)       *)
MeSelf == Method("me", <<>>, "SELF_TYPE", Self)
AgainMe == Method("again", <<>>, "SELF_TYPE", Dispatch(NoExpr, "me", <<>>))
ConformingMethods ==
    <<MeSelf, AgainMe,
      Method("viaself", <<>>, "SELF_TYPE", Dispatch(Self, "me", <<>>)),
      Method("same", <<>>, "A", Self),
      Method("own", <<>>, "SELF_TYPE", New("A")),
      Method("sub", <<>>, "SELF_TYPE", New("B")),
      Method("up", <<>>, "Object", New("B")),
      Method("par", <<Formal("p", "B")>>, "A", Identifier("p"))>>
MixedMethods ==
    <<Method("asA", <<>>, "A", Self),
      Method("down", <<>>, "B", New("A")),
      Method("lit", <<>>, "SELF_TYPE", IntegerConstant(1)),
      Method("other", <<>>, "Main", Self),
      Method("str", <<>>, "Int", StringConstant("s")),
      Method("und", <<>>, "Int", Identifier("y")),
      Method("und2", <<>>, "Object", Identifier("y"))>>

ReturnTypeScenarios ==
    {<< ConformingMethods, <<>>, MainReturns("SELF_TYPE", Self) >>,
     << <<MeSelf, AgainMe>>, MixedMethods, MainReturns("SELF_TYPE", Self) >>}

(* identifiers naming a formal, an attribute of the class, an attribute of *)
(* its parent, and nothing                                                 *)
AttrX == Attribute("x", "Int", IntegerConstant(5))
IdentifierScenarios ==
    {<< <<AttrX, Method("own", <<>>, "Int", Identifier("x")),
          Method("loc", <<Formal("x", "String")>>, "String", Identifier("x"))>>,
        <<Method("get", <<>>, "Int", Identifier("x"))>>,
        MainReturns("Int", IntegerConstant(0)) >>,
     << <<AttrX>>,
        <<Method("none", <<>>, "Object", Identifier("z"))>>,
        MainReturns("Int", IntegerConstant(0)) >>}

(* an attribute assigned and read in Main.main, and inside a let in a     *)
(* method of class A                                                       *)
AssignThenRead(e) == Block(<<Assign("x", e), Identifier("x")>>)
Bump == Method("bump", <<>>, "Int",
               Let(<< <<"y", "Int", IntegerConstant(1)>> >>, AssignThenRead(Identifier("y"))))
NewABump == Dispatch(New("A"), "bump", <<>>)
MainAssignsX == <<AttrX, Method("main", <<>>, "Int", AssignThenRead(IntegerConstant(7)))>>
AttributeScenarios ==
    {<< <<>>, <<>>, MainAssignsX >>,
     << <<AttrX, Bump>>, <<>>, MainReturns("Int", NewABump) >>}

(* (new B)@A.foo(), B overriding the foo of A *)
NewBAtAFoo == StaticDispatch(New("B"), "A", "foo", <<>>)
StaticDispatchScenarios ==
    {<< <<FooReturns(1)>>, <<FooReturns(2)>>, MainReturns("Int", NewBAtAFoo) >>}

(* dispatches on receivers of several static types, to methods declared  *)
(* in the receiver's class, inherited, or overridden with another          *)
(* signature, with conforming and non-conforming arguments                 *)
CalleesA ==
    <<FooReturns(1),
      Method("add", <<Formal("n", "Int"), Formal("a", "A")>>, "SELF_TYPE", Self),
      Method("pick", <<Formal("a", "A")>>, "A", Identifier("a"))>>
CalleesB ==
    <<Method("bar", <<>>, "Int", Dispatch(NoExpr, "foo", <<>>)),
      Method("pick", <<Formal("a", "A"), Formal("b", "B")>>, "B", Identifier("b"))>>
GoodCalls ==
    <<Method("main", <<>>, "Int", Dispatch(New("B"), "foo", <<>>)),
      Method("m2", <<>>, "B", Dispatch(New("B"), "add", <<IntegerConstant(1), New("B")>>)),
      Method("m3", <<>>, "Main", Dispatch(Self, "copy", <<>>)),
      Method("m4", <<>>, "B", Dispatch(New("B"), "pick", <<New("A"), New("B")>>)),
      Method("m5", <<>>, "SELF_TYPE", Dispatch(NoExpr, "copy", <<>>)),
      Method("m6", <<Formal("b", "B")>>, "A", Dispatch(New("A"), "pick", <<Identifier("b")>>))>>
BadCalls ==
    <<Method("main", <<>>, "Int", IntegerConstant(0)),
      Method("b1", <<>>, "Object", Dispatch(New("A"), "add", <<IntegerConstant(1)>>)),
      Method("b2", <<>>, "Object", Dispatch(New("A"), "add", <<StringConstant("s"), New("A")>>)),
      Method("b3", <<>>, "Object", Dispatch(New("A"), "nothing", <<>>)),
      Method("b4", <<>>, "Object", Dispatch(New("B"), "pick", <<New("A")>>)),
      Method("b5", <<>>, "Object", Dispatch(New("A"), "pick", <<Self>>)),
      Method("b6", <<>>, "Object", Dispatch(New("A"), "bar", <<>>))>>
CheckDispatchScenarios ==
    {<< CalleesA, CalleesB, GoodCalls >>, << CalleesA, CalleesB, BadCalls >>}

(* lets of two bindings: the second initialized from the first, the first *)
(* from the second, and the second with an initializer of another type     *)
BindingOne == <<"a", "Int", IntegerConstant(1)>>
LetChained == Let(<<BindingOne, <<"b", "Int", Identifier("a")>> >>, Identifier("b"))
LetBackward ==
    Let(<< <<"a", "Int", Identifier("b")>>, <<"b", "Int", IntegerConstant(1)>> >>,
        Identifier("a"))
LetRejected == Let(<<BindingOne, <<"b", "Int", StringConstant("s")>> >>, IntegerConstant(0))
MainAnd(m) == <<Method("main", <<>>, "Int", IntegerConstant(0)), m>>
LetScenarios ==
    {<< <<>>, <<>>, MainReturns("Int", LetChained) >>,
     << <<>>, <<>>, MainReturns("Int", LetBackward) >>,
     << <<>>, <<>>, MainAnd(Method("f", <<>>, "Object", LetRejected)) >>,
     << <<>>, <<>>, MainAnd(Method("f", <<Formal("p", "Int")>>, "Object",
                                   Block(<<LetRejected, Identifier("a")>>))) >>,
     << <<>>, <<>>, MainAnd(Method("f", <<Formal("p", "Int")>>, "Object",
                                   Block(<<LetChained, Identifier("a")>>))) >>}

(* case expressions: branches returning their own variable, a branch      *)
(* variable shadowing a formal, three branches, a branch reading another   *)
(* branch's variable, two branches of one type                             *)
GoodCases ==
    <<Method("main", <<>>, "Int", IntegerConstant(0)),
      Method("c1", <<>>, "A",
         Case(New("B"), <<Branch("a", "A", Identifier("a")),
                          Branch("b", "B", Identifier("b"))>>)),
      Method("c2", <<Formal("p", "Int")>>, "Int",
         Block(<<Case(New("B"), <<Branch("p", "B", Identifier("p"))>>), Identifier("p")>>)),
      Method("c3", <<>>, "Object",
         Case(Self, <<Branch("a", "B", New("B")),
                      Branch("b", "A", New("A")),
                      Branch("o", "Object", IntegerConstant(1))>>)),
      Method("c4", <<Formal("p", "Int")>>, "B",
         Case(New("B"), <<Branch("p", "B", Identifier("p"))>>))>>
BadCases ==
    <<Method("main", <<>>, "Int", IntegerConstant(0)),
      Method("d1", <<>>, "Object",
         Case(New("B"), <<Branch("a", "A", IntegerConstant(1)),
                          Branch("b", "B", Identifier("a"))>>)),
      Method("d2", <<>>, "Object",
         Case(New("B"), <<Branch("a", "A", IntegerConstant(1)),
                          Branch("b", "A", IntegerConstant(2))>>)),
      Method("d3", <<>>, "Object",
         Case(New("B"), <<Branch("a", "A", Identifier("z")),
                          Branch("b", "B", StringConstant("s")),
                          Branch("c", "A", IntegerConstant(2))>>))>>
CaseScenarios == {<< <<>>, <<>>, GoodCases >>, << <<>>, <<>>, BadCases >>}

(* calls from inside let y: Int <- 1: the first argument assigning y and  *)
(* the second reading it; a callee reading y; a callee assigning y; and a  *)
(* method calling itself with another argument before reading its formal   *)
LetY(body) == Let(<< <<"y", "Int", IntegerConstant(1)>> >>, body)
MainWith(body, m) == <<Method("main", <<>>, "Int", body), m>>
SecondOfTwo ==
    MainWith(LetY(Dispatch(NoExpr, "snd",
                    <<Block(<<Assign("y", IntegerConstant(2)), Identifier("y")>>),
                      Identifier("y")>>)),
             Method("snd", <<Formal("a", "Int"), Formal("b", "Int")>>, "Int", Identifier("b")))
CalleeReads ==
    MainWith(LetY(Dispatch(NoExpr, "peek", <<>>)),
             Method("peek", <<>>, "Int", Identifier("y")))
CalleeAssigns ==
    MainWith(LetY(Block(<<Dispatch(NoExpr, "poke", <<>>), Identifier("y")>>)),
             Method("poke", <<>>, "Int", Assign("y", IntegerConstant(5))))
Recursive ==
    MainWith(Dispatch(NoExpr, "down", <<BooleanConstant(TRUE)>>),
             Method("down", <<Formal("b", "Bool")>>, "Bool",
                Conditional(Identifier("b"),
                    Block(<<Dispatch(NoExpr, "down", <<BooleanConstant(FALSE)>>),
                            Identifier("b")>>),
                    Identifier("b"))))
CallScenarios ==
    {<< <<>>, <<>>, SecondOfTwo >>, << <<>>, <<>>, CalleeReads >>,
     << <<>>, <<>>, CalleeAssigns >>, << <<>>, <<>>, Recursive >>}

(* a dispatch on a let variable left void, and a dispatch of a method no  *)
(* class declares                                                          *)
VoidReceiver ==
    MainReturns("Int", Let(<< <<"v", "A", NoExpr>> >>,
                           Dispatch(Identifier("v"), "foo", <<IntegerConstant(3)>>)))
MissingMethod == MainReturns("Int", Dispatch(New("B"), "nothing", <<IntegerConstant(3)>>))
FailingDispatchScenarios ==
    {<< <<FooReturns(1)>>, <<>>, VoidReceiver >>, << <<FooReturns(1)>>, <<>>, MissingMethod >>}

(* two objects made by two `new A`, one of them assigned through set(7),  *)
(* and the other read                                                      *)
SetX == Method("set", <<Formal("v", "Int")>>, "Int", Assign("x", Identifier("v")))
GetX == Method("get_x", <<>>, "Int", Identifier("x"))
TwoInstances ==
    MainReturns("Int",
        Let(<< <<"a", "A", New("A")>>, <<"b", "A", New("A")>> >>,
            Block(<<Dispatch(Identifier("a"), "set", <<IntegerConstant(7)>>),
                    Dispatch(Identifier("b"), "get_x", <<>>)>>)))
FrameScenarios == {<< <<AttrX, SetX, GetX>>, <<>>, TwoInstances >>}

(* a / b for the four sign combinations of 7 and 2, a negative operand    *)
(* written 0 - n                                                           *)
Minus(n) == BinaryOp("-", IntegerConstant(0), IntegerConstant(n))
Quotient(l, r) == MainReturns("Int", BinaryOp("/", l, r))
DivisionScenarios ==
    {<< <<>>, <<>>, Quotient(l, r) >> :
        l \in {IntegerConstant(7), Minus(7)}, r \in {IntegerConstant(2), Minus(2)}}

(* attributes read before their initializer has been evaluated: x of the  *)
(* Main object, read by a method called from main, and y of a new A, read  *)
(* by the initializer of x declared before it                              *)
MainReadsOwnX ==
    <<AttrX, GetX, Method("main", <<>>, "Int", Dispatch(NoExpr, "get_x", <<>>))>>
ForwardInit ==
    <<Attribute("x", "Int", Identifier("y")), Attribute("y", "Int", IntegerConstant(5)), GetX>>
InitializerScenarios ==
    {<< <<>>, <<>>, MainReadsOwnX >>,
     << ForwardInit, <<>>, MainReturns("Int", Dispatch(New("A"), "get_x", <<>>)) >>}

(* let x <- 1 in { let x <- 2 in x; x }, and names read after the let or  *)
(* the case that bound them                                                *)
LetX(n, body) == Let(<< <<"x", "Int", IntegerConstant(n)>> >>, body)
ShadowingLet ==
    MainReturns("Int", LetX(1, Block(<<LetX(2, Identifier("x")), Identifier("x")>>)))
ReadAfterLet ==
    MainReturns("Int", Block(<<LetX(1, Identifier("x")), Identifier("x")>>))
ReadAfterCase ==
    MainReturns("Object",
        Block(<<Case(New("A"), <<Branch("a", "A", IntegerConstant(0))>>), Identifier("a")>>))
ScopeScenarios ==
    {<< <<>>, <<>>, ShadowingLet >>, << <<>>, <<>>, ReadAfterLet >>,
     << <<>>, <<>>, ReadAfterCase >>}

(* methods of A whose formal x has the name of the attribute x: Int <- 5:  *)
(* pick reads x; store assigns x and then reads the slot through get_x     *)
PickFormal == Method("pick", <<Formal("x", "String")>>, "String", Identifier("x"))
StoreFormal ==
    Method("store", <<Formal("x", "Int")>>, "Int",
           Block(<<Assign("x", IntegerConstant(9)), Dispatch(NoExpr, "get_x", <<>>)>>))
ShadowingFormals == <<AttrX, GetX, PickFormal, StoreFormal>>
CallsPick == MainReturns("String", Dispatch(New("A"), "pick", <<StringConstant("s")>>))
CallsStore == MainReturns("Int", Dispatch(New("A"), "store", <<IntegerConstant(1)>>))
FormalScenarios ==
    {<< ShadowingFormals, <<>>, CallsPick >>, << ShadowingFormals, <<>>, CallsStore >>}

(* a method with the formal p, followed in the same class by an attribute *)
(* initializer and by another method's body that use p                     *)
FormalThenOthers ==
    <<Method("m", <<Formal("p", "Int")>>, "Int", Identifier("p")),
      Attribute("y", "Object", Identifier("p")),
      Method("n", <<>>, "Object", Identifier("p"))>>
FormalScopeScenarios == {<< FormalThenOthers, <<>>, MainReturns("Int", IntegerConstant(0)) >>}

(* an attribute with the name of a method: main in Main, before the       *)
(* method main; foo in B, the method foo being declared by its parent A    *)
AttributeNamedMain ==
    <<Attribute("main", "Int", NoExpr), Method("main", <<>>, "Int", IntegerConstant(3))>>
AttributeNamedFoo == <<Attribute("foo", "Int", NoExpr)>>
MethodLookupScenarios ==
    {<< <<>>, <<>>, AttributeNamedMain >>,
     << <<FooReturns(1)>>, AttributeNamedFoo, MainReturns("Int", NewBFoo) >>}

Scenarios ==
    DispatchScenarios \cup ReturnTypeScenarios \cup IdentifierScenarios
        \cup AttributeScenarios \cup StaticDispatchScenarios
        \cup CheckDispatchScenarios \cup LetScenarios \cup CaseScenarios
        \cup CallScenarios \cup FailingDispatchScenarios
        \cup FrameScenarios
        \cup DivisionScenarios
        \cup InitializerScenarios
        \cup ScopeScenarios
        \cup FormalScenarios
        \cup FormalScopeScenarios
        \cup MethodLookupScenarios

ScenarioPrograms ==
    {<<Class("A", pa, s[1]), Class("B", "A", s[2]), Class("Main", pm, s[3])>> :
        pa \in {None, "Object"}, pm \in {None, "Object"}, s \in Scenarios}

(* programs declaring a class name twice, or the name of a built-in class: *)
(* class A, then a class named A, Int, IO or B, then class Main            *)
FirstFeatures == <<FooReturns(1), AttrX>>
SecondFeatures ==
    <<Method("foo", <<Formal("a", "Int")>>, "String", StringConstant("s")),
      Method("bar", <<>>, "Int", IntegerConstant(2)),
      Attribute("x", "String", NoExpr),
      Attribute("y", "Int", NoExpr)>>
DuplicatePrograms ==
    {<<Class("A", None, FirstFeatures), Class(n, p, f),
       Class("Main", None, MainReturns("Int", IntegerConstant(0)))>> :
        n \in {"A", "Int", "IO", "B"}, p \in {None, "IO"}, f \in {<<>>, SecondFeatures}}

(* no AST at all (None), the one that `not self.ast` rejects: a Program    *)
(* node has at least one class                                             *)
NoProgram == <<>>

Programs ==
    Hierarchies \cup TestPrograms \cup ScenarioPrograms \cup DuplicatePrograms
        \cup {NoProgram}

-----------------------------------------------------------------------------
Init ==
    /\ ast \in Programs
    /\ class_table = basic_types
    /\ table_keys = basic_keys
    /\ errors = <<>>
    /\ current_class = None
    /\ local_vars = EmptyMap
    /\ checked = <<>>
    /\ pc = "start"
    /\ idx = 0
    /\ ret = None
    /\ class_defs = collect_class_defs(ast, 1, EmptyMap)
    /\ global_env = EmptyMap
    /\ heap = <<>>
    /\ calls = 0
    /\ epc = "start"
    /\ result = [status |-> "none", val |-> VoidV, exc |-> None, msg |-> <<>>]

(* check, without an AST: lines 79-82 *)
Empty ==
    /\ pc = "start"
    /\ ast = NoProgram
    /\ errors' = Append(errors, Diag("Empty AST", ""))
    /\ ret' = FALSE
    /\ pc' = "empty"
    /\ UNCHANGED <<ast, class_table, table_keys, current_class, local_vars, checked, idx,
                   evaluator_vars>>

(* check, up to the class table: lines 84-88 *)
Build ==
    /\ pc = "start"
    /\ ast # NoProgram
    /\ LET b == build_class_table(ast, class_table, table_keys, errors) IN
        /\ class_table' = b.table
        /\ table_keys' = b.keys
        /\ errors' = b.errors
    /\ pc' = "built"
    /\ UNCHANGED <<ast, current_class, local_vars, checked, idx, ret, evaluator_vars>>

(* check, the hierarchy validation: lines 90-94 *)
Cycles ==
    /\ pc = "built"
    /\ LET r == check_inheritance_cycles(class_table, table_keys) IN
        /\ errors' = errors \o r.errors
        /\ IF r.ok
           THEN pc' = "classes" /\ idx' = 1 /\ ret' = ret
           ELSE pc' = "done" /\ idx' = idx /\ ret' = FALSE
    /\ UNCHANGED <<ast, class_table, table_keys, current_class, local_vars, checked,
                   evaluator_vars>>

(* check, one turn of the loop over the class nodes: lines 98-110 *)
CheckClass ==
    /\ pc = "classes"
    /\ idx <= Len(ast)
    /\ LET class_node == ast[idx]
       IN \E r \in {check_class([table |-> class_table, cls |-> class_node.name], class_node,
                                [errors |-> errors, local_vars |-> EmptyMap, exc |-> None],
                                checked)} :
          /\ current_class' = class_node.name
          /\ local_vars' = r.st.local_vars
          /\ checked' = r.checked
          /\ IF r.st.exc # None
             THEN /\ errors' = Append(r.st.errors, Diag("Exception", r.st.exc))
                  /\ pc' = "done" /\ ret' = FALSE /\ idx' = idx
             ELSE /\ errors' = r.st.errors
                  /\ IF r.ok
                     THEN pc' = "classes" /\ ret' = ret /\ idx' = idx + 1
                     ELSE pc' = "done" /\ ret' = FALSE /\ idx' = idx
    /\ UNCHANGED <<ast, class_table, table_keys, evaluator_vars>>

(* check, after the loop: the entry point and the result, lines 112-122 *)
EntryCheck ==
    /\ pc = "classes"
    /\ idx > Len(ast)
    /\ pc' = "done"
    /\ IF "Main" \notin DOMAIN class_table
       THEN errors' = Append(errors, Diag("Program is missing Main class", "")) /\ ret' = FALSE
       ELSE IF "main" \notin DOMAIN class_table["Main"].methods
       THEN errors' = Append(errors, Diag("Main class is missing main method", "")) /\ ret' = FALSE
       ELSE errors' = errors /\ ret' = (Len(errors) = 0)
    /\ UNCHANGED <<ast, class_table, table_keys, current_class, local_vars, checked, idx,
                   evaluator_vars>>

(* Evaluator.eval, on an Evaluator built from the same AST *)
Eval ==
    /\ epc = "start"
    /\ LET r == eval(class_defs,
                     [heap |-> heap, calls |-> calls,
                      envs |-> <<[vars |-> global_env, parent |-> 0]>>])
       IN /\ result' = [status |-> r.status, val |-> r.val, exc |-> r.exc, msg |-> r.msg]
          /\ heap' = r.S.heap
          /\ calls' = r.S.calls
          /\ global_env' = r.S.envs[1].vars
    /\ epc' = "done"
    /\ UNCHANGED <<ast, class_defs, checker_vars>>

Next == Empty \/ Build \/ Cycles \/ CheckClass \/ EntryCheck \/ Eval

Spec == Init /\ [][Next]_vars

-----------------------------------------------------------------------------
(* Vocabulary of the properties *)

ClassNamesOf(classes) == {classes[i].name : i \in 1..Len(classes)}
KindsOf(errs) == {errs[k].kind : k \in 1..Len(errs)}

(* check_inheritance_cycles has returned True *)
Validated == idx >= 1

CycleKind == "Inheritance cycle detected involving class"
UndefinedKind == "Class not defined"
MismatchKinds == {"Method body type differs from declared return type",
                  "Attribute initialization type differs from declared"}
(* the diagnostics of build_class_table and check_inheritance_cycles *)
TableKinds == {"Duplicate class definition", CycleKind, UndefinedKind}

(* where the parent chain of class c leads: to Object ("root"), to a      *)
(* class that is not in the table, or back to a class already on it       *)
RECURSIVE ChainOutcome(_, _, _)
ChainOutcome(table, c, seen) ==
    IF c = None \/ c = "Object" THEN "root"
    ELSE IF c \notin DOMAIN table THEN "undeclared"
    ELSE IF c \in seen THEN "cyclic"
    ELSE ChainOutcome(table, table[c].parent, seen \cup {c})

ChainOutcomes(table) == {ChainOutcome(table, c, {}) : c \in DOMAIN table}

(* y is x or an ancestor of x in the table *)
RECURSIVE AncestorOrSelf(_, _, _)
AncestorOrSelf(table, x, y) ==
    \/ x = y
    \/ /\ x \in DOMAIN table
       /\ table[x].parent # None
       /\ AncestorOrSelf(table, table[x].parent, y)

(* the <<class, feature>> of every feature with a body or an initializer, *)
(* in program order                                                        *)
RECURSIVE BodiesOfClass(_, _)
BodiesOfClass(class_node, j) ==
    IF j > Len(class_node.features) THEN <<>>
    ELSE (IF HasBody(class_node.features[j])
          THEN <<<<class_node.name, class_node.features[j].name>>>> ELSE <<>>)
         \o BodiesOfClass(class_node, j + 1)

RECURSIVE AllBodies(_, _)
AllBodies(classes, i) ==
    IF i > Len(classes) THEN <<>>
    ELSE BodiesOfClass(classes[i], 1) \o AllBodies(classes, i + 1)

-----------------------------------------------------------------------------
(* C1: over a class table that passed the hierarchy validation,           *)
(* is_subtype is reflexive and transitive on the classes of the table,    *)
(* whatever class is being checked.                                       *)
SubtypeReflexiveTransitive ==
    Validated =>
        \A cur \in ClassNamesOf(ast) : \A a, b, c \in DOMAIN class_table :
            /\ is_subtype(class_table, cur, a, a)
            /\ (is_subtype(class_table, cur, a, b) /\ is_subtype(class_table, cur, b, c))
                   => is_subtype(class_table, cur, a, c)

(* a validated table with a chain of three distinct classes, two of them *)
(* declared by the program                                                *)
SubtypeChainReached ==
    /\ Validated
    /\ \E a, b \in ClassNamesOf(ast) : \E c \in DOMAIN class_table :
          /\ a # b /\ b # c /\ a # c /\ a # "SELF_TYPE" /\ b # "SELF_TYPE"
          /\ is_subtype(class_table, a, a, b)
          /\ is_subtype(class_table, a, b, c)

(* C2: over a validated class table join_types is commutative and        *)
(* idempotent, and the join of any class with Object is Object.           *)
JoinCommutativeIdempotent ==
    Validated =>
        \A cur \in ClassNamesOf(ast) : \A a, b \in DOMAIN class_table :
            /\ join_types(class_table, cur, a, b) = join_types(class_table, cur, b, a)
            /\ join_types(class_table, cur, a, a) = a
            /\ join_types(class_table, cur, a, "Object") = "Object"

(* a validated table where one declared class is a proper ancestor of    *)
(* another, below Object: their join is found by climbing from either     *)
JoinOfRelatedReached ==
    /\ Validated
    /\ \E a, b \in ClassNamesOf(ast) :
          /\ a # b /\ a # "SELF_TYPE" /\ b # "SELF_TYPE"
          /\ AncestorOrSelf(class_table, a, b)
          /\ join_types(class_table, a, a, b) = b
          /\ join_types(class_table, a, b, a) = b

(* C3: over a validated class table join_types(A, B) is the least upper  *)
(* bound of the classes A and B: an ancestor-or-self of both, and below   *)
(* every common ancestor-or-self.                                         *)
JoinIsLeastUpperBound ==
    Validated =>
        \A cur \in ClassNamesOf(ast) : \A a, b \in DOMAIN class_table :
            LET r == join_types(class_table, cur, a, b) IN
            /\ AncestorOrSelf(class_table, a, r)
            /\ AncestorOrSelf(class_table, b, r)
            /\ \A c \in DOMAIN class_table :
                  (AncestorOrSelf(class_table, a, c) /\ AncestorOrSelf(class_table, b, c))
                     => AncestorOrSelf(class_table, r, c)

(* C4, as stated: check_inheritance_cycles fails and records a cycle     *)
(* diagnostic when some class's parent chain returns to a class already   *)
(* on it, and succeeds with no diagnostic when every chain reaches Object *)
(* through declared classes.                                              *)
CycleAlwaysReportedAsCycle ==
    pc \in {"classes", "done"} =>
        /\ "cyclic" \in ChainOutcomes(class_table)
              => (~Validated /\ CycleKind \in KindsOf(errors))
        /\ ChainOutcomes(class_table) = {"root"}
              => (Validated /\ KindsOf(errors) \cap {CycleKind, UndefinedKind} = {})

(* C4, amended: it fails exactly when some chain does not reach Object;  *)
(* it then records one hierarchy diagnostic, which is a cycle diagnostic  *)
(* when no chain names an undeclared class; it succeeds with no           *)
(* diagnostic when every chain reaches Object through declared classes.   *)
CycleReportedUnlessUndeclared ==
    pc \in {"classes", "done"} =>
        /\ Validated <=> ChainOutcomes(class_table) = {"root"}
        /\ ~Validated => KindsOf(errors) \cap {CycleKind, UndefinedKind} # {}
        /\ ("cyclic" \in ChainOutcomes(class_table)
               /\ "undeclared" \notin ChainOutcomes(class_table))
              => (~Validated /\ CycleKind \in KindsOf(errors))
        /\ Validated => KindsOf(errors) \cap {CycleKind, UndefinedKind} = {}

(* a cyclic table, no undeclared parent, rejected with the cycle diagnostic *)
CycleRejectedReached ==
    /\ pc = "done"
    /\ ~Validated
    /\ ChainOutcomes(class_table) = {"root", "cyclic"}
    /\ CycleKind \in KindsOf(errors)

(* C5: when some class's parent chain is cyclic or names an undeclared    *)
(* class, check records a hierarchy diagnostic, returns False and hands   *)
(* no feature to the expression checker: only class-table and hierarchy   *)
(* diagnostics are recorded.                                              *)
UnsoundHierarchyHaltsChecking ==
    (pc = "done" /\ ChainOutcomes(class_table) # {"root"}) =>
        /\ ret = FALSE
        /\ KindsOf(errors) \cap {CycleKind, UndefinedKind} # {}
        /\ KindsOf(errors) \subseteq TableKinds
        /\ checked = <<>>
        /\ current_class = None

(* check has returned on an unsound hierarchy whose classes have feature  *)
(* bodies that the expression checker would reject                        *)
UnsoundWithFeaturesReached ==
    /\ pc = "done"
    /\ ChainOutcomes(class_table) # {"root"}
    /\ \E i \in 1..Len(ast) : \E j \in 1..Len(ast[i].features) :
          /\ ast[i].features[j].fkind = "Method"
          /\ ast[i].features[j].body.kind = "StringConstant"
          /\ ast[i].features[j].return_type = "Int"

(* C6: on a sound hierarchy, once a method body or an attribute           *)
(* initializer that does not conform has been reported, every feature of  *)
(* every class has still been type-checked and the entry-point check has  *)
(* still been made when check returns.                                    *)
MismatchDoesNotStopChecking ==
    (pc = "done" /\ Validated /\ KindsOf(errors) \cap MismatchKinds # {}) =>
        /\ checked = AllBodies(ast, 1)
        /\ "Main" \notin DOMAIN class_table
              => "Program is missing Main class" \in KindsOf(errors)
        /\ ("Main" \in DOMAIN class_table
               /\ "main" \notin DOMAIN class_table["Main"].methods)
              => "Main class is missing main method" \in KindsOf(errors)

(* C7: a program for which check reports no diagnostic does not fail, when *)
(* evaluated, with an undefined variable or attribute nor with a method    *)
(* that is not found.                                                      *)
UndefinedMessages ==
    {"Undefined variable or attribute", "Undefined variable", "Method not found in class"}

MainOf(defs) == defs["Main"].features[FirstNamed(defs["Main"].features, "main")]
HasMainMethod(defs) ==
    "Main" \in DOMAIN defs /\ FirstNamed(defs["Main"].features, "main") # 0

EvalReturnsValueOfMain ==
    epc = "done" =>
        /\ "Main" \notin DOMAIN class_defs
              => /\ result.status = "raise" /\ result.exc = "RuntimeError"
                 /\ result.msg = <<"No Main class found">> /\ calls = 0
        /\ ("Main" \in DOMAIN class_defs /\ ~HasMainMethod(class_defs))
              => /\ result.status = "raise" /\ result.exc = "RuntimeError"
                 /\ result.msg = <<"No main method found in Main class">> /\ calls = 0
        /\ (HasMainMethod(class_defs) /\ MainOf(class_defs).fkind = "Method"
               /\ MainOf(class_defs).body.kind = "IntegerConstant")
              => /\ result.status = "ok"
                 /\ result.val = IntV(MainOf(class_defs).body.value)

(* C9: new A, A declaring x: Int <- 5 and get_x(): Int { x }, followed by *)
(* get_x(), yields 5, the object created holding 5 in x.                   *)
NewThenGetX == Dispatch(New("A"), "get_x", <<>>)
AttrXGetX ==
    <<Attribute("x", "Int", IntegerConstant(5)),
      Method("get_x", <<>>, "Int", Identifier("x"))>>

NewInitializesAttributes ==
    (/\ epc = "done" /\ HasMainMethod(class_defs)
     /\ MainOf(class_defs).fkind = "Method"
     /\ MainOf(class_defs).body = NewThenGetX
     /\ "A" \in DOMAIN class_defs
     /\ class_defs["A"].features = AttrXGetX)
        => /\ result.status = "ok"
           /\ result.val = IntV(5)
           /\ \E o \in 1..Len(heap) :
                 heap[o].class_name = "A" /\ heap[o].attrs["x"] = IntV(5)

(* C10: case new B of a: A => 1; b: B => 2, B inheriting A, yields 2; a   *)
(* case none of whose branch types is in the ancestor chain of B fails    *)
(* with the runtime error of the unmatched case.                          *)
CaseOfNewB(cases) == Case(New("B"), cases)
BranchesAB == <<Branch("a", "A", IntegerConstant(1)), Branch("b", "B", IntegerConstant(2))>>
BranchesMain == <<Branch("m", "Main", IntegerConstant(1))>>

CaseSelectsNearestAncestor ==
    (/\ epc = "done" /\ HasMainMethod(class_defs)
     /\ MainOf(class_defs).fkind = "Method"
     /\ {"A", "B"} \subseteq DOMAIN class_defs
     /\ class_defs["B"].parent = "A")
        => /\ MainOf(class_defs).body = CaseOfNewB(BranchesAB)
                 => (result.status = "ok" /\ result.val = IntV(2))
           /\ MainOf(class_defs).body = CaseOfNewB(BranchesMain)
                 => /\ result.status = "raise" /\ result.exc = "RuntimeError"
                    /\ result.msg = <<"No matching branch in case">>

-----------------------------------------------------------------------------
(* C11: (new B).foo(), B inheriting A and A declaring foo(): Int { 1 },    *)
(* runs the foo of B when B declares one (foo(): Int { 2 } yields 2) and   *)
(* the foo inherited from A when B declares none (yields 1).               *)
DispatchRunsNearestDeclaration ==
    (/\ epc = "done" /\ HasMainMethod(class_defs)
     /\ MainOf(class_defs).fkind = "Method"
     /\ MainOf(class_defs).body = NewBFoo
     /\ {"A", "B"} \subseteq DOMAIN class_defs
     /\ class_defs["B"].parent = "A"
     /\ class_defs["A"].features = <<FooReturns(1)>>)
        => /\ class_defs["B"].features = <<FooReturns(2)>>
                 => (result.status = "ok" /\ result.val = IntV(2))
           /\ class_defs["B"].features = <<>>
                 => (result.status = "ok" /\ result.val = IntV(1))

-----------------------------------------------------------------------------
(* the class a type name stands for while class cls is checked *)
Resolve(cls, t) == IF t = "SELF_TYPE" THEN cls ELSE t

(* type t conforms to type d while class cls is checked: d, SELF_TYPE      *)
(* standing for cls, is t or an ancestor of t                              *)
Conforms(table, cls, t, d) == AncestorOrSelf(table, Resolve(cls, t), Resolve(cls, d))

CheckerState(lv) == [errors |-> <<>>, local_vars |-> lv, exc |-> None]
FormalsScope(formals) ==
    [n \in {formals[k].name : k \in 1..Len(formals)} |->
        formals[CHOOSE k \in 1..Len(formals) :
                   /\ formals[k].name = n
                   /\ \A m \in (k + 1)..Len(formals) : formals[m].name # n].type]
MethodsOf(class_node) ==
    {class_node.features[j] : j \in {k \in 1..Len(class_node.features) :
                                        class_node.features[k].fkind = "Method"}}
MismatchOfMethod == "Method body type differs from declared return type"

(* C12: for every method of every class of a validated program whose body *)
(* has a type, check_method returns True, adding nothing to the            *)
(* diagnostics of the body, exactly when the body type conforms to the     *)
(* declared return type (SELF_TYPE standing for the current class), and    *)
(* otherwise adds the one mismatch diagnostic and returns False; a method  *)
(* declared SELF_TYPE whose body is self, or a dispatch on self of a       *)
(* method declared SELF_TYPE, is accepted.                                 *)
MethodAcceptedIffBodyConforms ==
    Validated =>
        \A i \in 1..Len(ast) : \A m \in MethodsOf(ast[i]) :
            LET ctx == [table |-> class_table, cls |-> ast[i].name]
                b == get_expr_type(ctx, m.body, CheckerState(FormalsScope(m.formals)))
                r == check_method(ctx, m, CheckerState(EmptyMap))
            IN ~Raised(b) =>
                 /\ r.ok <=> Conforms(class_table, ast[i].name, b.ty, m.return_type)
                 /\ r.ok => r.st.errors = b.st.errors
                 /\ ~r.ok => r.st.errors = Append(b.st.errors, Diag(MismatchOfMethod, m.name))
                 /\ (m.return_type = "SELF_TYPE"
                        /\ m.body \in {Self, Dispatch(NoExpr, "me", <<>>),
                                       Dispatch(Self, "me", <<>>)}
                        /\ MeSelf \in MethodsOf(ast[i]))
                       => (r.ok /\ r.st.errors = <<>>)

(* check has accepted a whole program in which a method declared SELF_TYPE *)
(* returns self, another the result of a dispatch on self, and another an  *)
(* object of a subclass of its class                                       *)
SelfTypeMethodsAcceptedReached ==
    /\ pc = "done" /\ ret = TRUE
    /\ \E i \in 1..Len(ast) :
          /\ {MeSelf, AgainMe} \subseteq MethodsOf(ast[i])
          /\ <<ast[i].name, "again">> \in {checked[k] : k \in 1..Len(checked)}
          /\ <<ast[i].name, "up">> \in {checked[k] : k \in 1..Len(checked)}

-----------------------------------------------------------------------------
(* the declared type of attribute n in class c or, failing that, in its    *)
(* nearest ancestor declaring it; None when no class of the chain does     *)
RECURSIVE AttributeTypeOf(_, _, _)
AttributeTypeOf(table, c, n) ==
    IF c = None \/ c \notin DOMAIN table THEN None
    ELSE IF n \in DOMAIN table[c].attributes THEN table[c].attributes[n]
    ELSE AttributeTypeOf(table, table[c].parent, n)

(* C13: in every method of a validated program whose body is an           *)
(* identifier, the identifier has the type of the formal of that name,     *)
(* else the declared type of the attribute of that name of the current     *)
(* class or of its nearest ancestor declaring it, with no diagnostic; only *)
(* a name found in none of these is typed Object with an                   *)
(* undefined-identifier diagnostic.                                        *)
IdentifierTypedThroughAncestors ==
    Validated =>
        \A i \in 1..Len(ast) : \A m \in MethodsOf(ast[i]) :
            m.body.kind = "Identifier" =>
                LET scope == FormalsScope(m.formals)
                    n == m.body.name
                    a == AttributeTypeOf(class_table, ast[i].name, n)
                    b == get_expr_type([table |-> class_table, cls |-> ast[i].name],
                                       m.body, CheckerState(scope))
                IN IF n \in DOMAIN scope
                   THEN b.ty = scope[n] /\ b.st.errors = <<>>
                   ELSE IF a # None
                   THEN b.ty = a /\ b.st.errors = <<>>
                   ELSE b.ty = "Object"
                        /\ b.st.errors = <<Diag("Undefined identifier", n)>>

-----------------------------------------------------------------------------
(* the objects of class c on the heap *)
ObjectsOf(c) == {o \in 1..Len(heap) : heap[o].class_name = c}

(* C14: Main declaring x: Int <- 5, main(): Int { { x <- 7; x; } } yields  *)
(* 7 and leaves 7 in the slot x of the Main object; and bump(): Int        *)
(* { let y: Int <- 1 in { x <- y; x; } } of class A, called on new A,      *)
(* yields 1 and leaves 1 in the slot x of that object: inside let scopes   *)
(* and in Main.main a name of an attribute of the receiver reads and       *)
(* assigns the receiver's slot.                                            *)
AttributeNamesUseReceiverSlot ==
    (epc = "done" /\ HasMainMethod(class_defs) /\ MainOf(class_defs).fkind = "Method") =>
        /\ class_defs["Main"].features = MainAssignsX
              => /\ result.status = "ok" /\ result.val = IntV(7)
                 /\ \E o \in ObjectsOf("Main") : heap[o].attrs["x"] = IntV(7)
        /\ (/\ MainOf(class_defs).body = NewABump
            /\ "A" \in DOMAIN class_defs
            /\ class_defs["A"].features = <<AttrX, Bump>>)
              => /\ result.status = "ok" /\ result.val = IntV(1)
                 /\ \E o \in ObjectsOf("A") : heap[o].attrs["x"] = IntV(1)

-----------------------------------------------------------------------------
(* C15: main(): Int { (new B)@A.foo() }, A declaring foo(): Int { 1 } and  *)
(* B inheriting A and overriding it with foo(): Int { 2 }, is type-checked *)
(* without diagnostic (no unknown-expression diagnostic) and evaluates to  *)
(* 1, the foo found from A, with no unsupported-expression error.          *)
StaticDispatchBypassesOverride ==
    (/\ HasMainMethod(class_defs) /\ MainOf(class_defs).fkind = "Method"
     /\ MainOf(class_defs).body = NewBAtAFoo
     /\ {"A", "B"} \subseteq DOMAIN class_defs
     /\ class_defs["A"].features = <<FooReturns(1)>>
     /\ class_defs["B"].features = <<FooReturns(2)>>)
        => /\ pc = "done"
                 => ("Unknown expression type" \notin KindsOf(errors) /\ ret = TRUE)
           /\ epc = "done"
                 => (result.status = "ok" /\ result.val = IntV(1))

-----------------------------------------------------------------------------
(* the classes, from class t upward, that declare method m, and the        *)
(* nearest of them                                                         *)
Declarers(table, t, m) ==
    {d \in DOMAIN table : AncestorOrSelf(table, t, d) /\ m \in DOMAIN table[d].methods}
NearestDeclarer(table, t, m) ==
    CHOOSE d \in Declarers(table, t, m) :
        \A e \in Declarers(table, t, m) : AncestorOrSelf(table, d, e)

(* the type and the diagnostics of an expression typed on its own *)
TypeIn(ctx, scope, e) == get_expr_type(ctx, e, CheckerState(scope))

(* C16: in every method of a validated program whose body is a dispatch,   *)
(* the receiver and the arguments being typed without diagnostic, with T   *)
(* the receiver's static type (the current class for no receiver or a      *)
(* SELF_TYPE receiver): when no class from T upward declares the method,   *)
(* check_dispatch adds the method-not-found diagnostic; else, with the     *)
(* signature of the nearest class declaring it, it adds a diagnostic for a *)
(* wrong number of arguments, or for the first argument whose type does    *)
(* not conform to its formal's type, typing the dispatch Object; otherwise *)
(* it adds nothing and returns the declared return type, T for SELF_TYPE.  *)
DispatchTypedByNearestSignature ==
    Validated =>
        \A i \in 1..Len(ast) : \A m \in MethodsOf(ast[i]) :
            LET ctx == [table |-> class_table, cls |-> ast[i].name]
                scope == FormalsScope(m.formals)
                e == m.body
                recv == IF e.obj.kind = "None" THEN Ty(ctx.cls, CheckerState(scope))
                        ELSE TypeIn(ctx, scope, e.obj)
                T == Resolve(ctx.cls, recv.ty)
                argt == [k \in 1..Len(e.args) |-> TypeIn(ctx, scope, e.args[k])]
                r == check_dispatch(ctx, e, CheckerState(scope))
            IN (/\ e.kind = "Dispatch"
                /\ ~Raised(recv) /\ recv.st.errors = <<>> /\ T \in DOMAIN class_table
                /\ \A k \in 1..Len(e.args) : ~Raised(argt[k]) /\ argt[k].st.errors = <<>>)
               =>
               IF Declarers(class_table, T, e.method) = {}
               THEN /\ r.ty = "Object"
                    /\ r.st.errors = <<Diag("Method not found in class or its ancestors", e.method)>>
               ELSE LET sig == class_table[NearestDeclarer(class_table, T, e.method)].methods[e.method]
                        bad == {k \in 1..Len(e.args) :
                                   k <= Len(sig.params)
                                   /\ ~Conforms(class_table, ctx.cls, argt[k].ty, sig.params[k][2])}
                    IN IF Len(sig.params) # Len(e.args)
                       THEN /\ r.ty = "Object"
                            /\ r.st.errors = <<Diag("Method expects other number of arguments", e.method)>>
                       ELSE IF bad # {}
                       THEN /\ r.ty = "Object"
                            /\ r.st.errors = <<Diag("In call, argument type not expected", e.method)>>
                       ELSE /\ r.ty = (IF sig.ret = "SELF_TYPE" THEN T ELSE sig.ret)
                            /\ r.st.errors = <<>>

(* check has accepted a program whose methods dispatch to an inherited     *)
(* method, to a method returning SELF_TYPE and to an overriding method of  *)
(* another signature                                                       *)
InheritedDispatchCheckedReached ==
    /\ pc = "done" /\ ret = TRUE
    /\ \E i \in 1..Len(ast) :
          /\ ast[i].features = GoodCalls
          /\ <<ast[i].name, "m6">> \in {checked[k] : k \in 1..Len(checked)}
    /\ "B" \in DOMAIN class_table /\ class_table["B"].parent = "A"
    /\ "foo" \in DOMAIN class_table["A"].methods
    /\ "foo" \notin DOMAIN class_table["B"].methods

-----------------------------------------------------------------------------
(* C17: in every method of a validated program, a let that is the body,   *)
(* or the first expression of the body block, leaves the local scope as it *)
(* was before the let (the formals), whether or not it recorded a          *)
(* non-conforming initializer; and an identifier that follows the let in   *)
(* the block and names one of its bindings, and no formal or attribute, is *)
(* an undefined identifier.                                                *)
LetLeavesScopeUnchanged ==
    Validated =>
        \A i \in 1..Len(ast) : \A m \in MethodsOf(ast[i]) :
            LET ctx == [table |-> class_table, cls |-> ast[i].name]
                scope == FormalsScope(m.formals)
            IN /\ m.body.kind = "Let" =>
                    LET r == check_let(ctx, m.body, CheckerState(scope)) IN
                    ~Raised(r) => r.st.local_vars = scope
               /\ (/\ m.body.kind = "Block"
                   /\ Len(m.body.expressions) = 2
                   /\ m.body.expressions[1].kind = "Let"
                   /\ m.body.expressions[2] = Identifier("a")
                   /\ "a" \notin DOMAIN scope
                   /\ "a" \notin DOMAIN class_table[ast[i].name].attributes) =>
                    LET r == check_let(ctx, m.body.expressions[1], CheckerState(scope))
                        b == TypeIn(ctx, scope, m.body)
                    IN ~Raised(b) =>
                         /\ r.st.local_vars = scope
                         /\ b.ty = "Object"
                         /\ b.st.errors[Len(b.st.errors)] = Diag("Undefined identifier", "a")

-----------------------------------------------------------------------------
(* the first branch whose type an earlier branch declares too; 0 if none *)
FirstDuplicate(cases) ==
    LET dups == {k \in 1..Len(cases) : \E j \in 1..(k - 1) : cases[j].type = cases[k].type}
    IN IF dups = {} THEN 0 ELSE CHOOSE k \in dups : \A j \in dups : k <= j

(* the join of the types ts[1..n], folded from the left *)
RECURSIVE FoldJoin(_, _, _)
FoldJoin(ctx, ts, n) ==
    IF n = 1 THEN ts[1]
    ELSE join_types(ctx.table, ctx.cls, FoldJoin(ctx, ts, n - 1), ts[n])

RECURSIVE Concat(_, _)
Concat(ss, n) == IF n = 0 THEN <<>> ELSE Concat(ss, n - 1) \o ss[n]

-----------------------------------------------------------------------------
(* C19: inside let y: Int <- 1, snd({ y <- 2; y; }, y) with snd(a, b)     *)
(* returning b yields 2 (arguments left to right, in the caller's          *)
(* environment, before the body); peek() with peek(): Int { y } fails with *)
(* an undefined variable (the callee does not read the caller's local);    *)
(* { poke(); y; } with poke(): Int { y <- 5 } yields 1 (nor assigns it);   *)
(* and down(true), down(b) calling down(false) before returning b, yields  *)
(* true (each invocation has its own formals).                             *)
CalleeRunsInFreshEnvironment ==
    (epc = "done" /\ "Main" \in DOMAIN class_defs) =>
        /\ class_defs["Main"].features = SecondOfTwo
              => (result.status = "ok" /\ result.val = IntV(2))
        /\ class_defs["Main"].features = CalleeReads
              => /\ result.status = "raise" /\ result.exc = "RuntimeError"
                 /\ result.msg = <<"Undefined variable or attribute", "y">>
        /\ class_defs["Main"].features = CalleeAssigns
              => (result.status = "ok" /\ result.val = IntV(1))
        /\ class_defs["Main"].features = Recursive
              => (result.status = "ok" /\ result.val = BoolV(TRUE))

-----------------------------------------------------------------------------
(* C20: let v: A in v.foo(3), v being void, ends eval with the runtime     *)
(* error of a dispatch on a non-object, and (new B).nothing(3), no class   *)
(* from B upward declaring nothing, with the runtime error naming the      *)
(* method and the class B; in both, eval_expr has been called for the      *)
(* expressions up to the receiver only: no argument and no method body.    *)
FailedDispatchAbortsEvaluation ==
    (epc = "done" /\ "Main" \in DOMAIN class_defs) =>
        /\ class_defs["Main"].features = VoidReceiver
              => /\ result.status = "raise" /\ result.exc = "RuntimeError"
                 /\ result.msg = <<"Dispatch on non-object">>
                 /\ calls = 3
        /\ class_defs["Main"].features = MissingMethod
              => /\ result.status = "raise" /\ result.exc = "RuntimeError"
                 /\ result.msg = <<"Method not found in class", "nothing", "B">>
                 /\ calls = 2

-----------------------------------------------------------------------------
(* the class at which the parent chain of c ends, followed for at most n  *)
(* parent steps: the last class before a parent of None, or a marker when *)
(* the chain leaves the table or is still going after n steps             *)
RECURSIVE Climb(_, _, _, _)
Climb(table, c, last, n) ==
    IF c = None THEN last
    ELSE IF c \notin DOMAIN table THEN "<undeclared>"
    ELSE IF n = 0 THEN "<unfinished>"
    ELSE Climb(table, table[c].parent, c, n - 1)

(* C21: has_cycle makes at most one call per class of the table, plus     *)
(* one, on every class table, cyclic ones included; and once              *)
(* check_inheritance_cycles has succeeded, the parent chain of every      *)
(* class ends at Object within as many steps as the table has classes, so *)
(* the walks of is_subtype, join_types and check_dispatch, which follow   *)
(* that chain, are bounded by the size of the table.                      *)
ParentWalksAreBounded ==
    pc # "start" =>
        LET N == Cardinality(DOMAIN class_table) IN
        /\ \A c \in DOMAIN class_table : has_cycle(class_table, c, {}).calls <= N + 1
        /\ Validated =>
              /\ \A c \in DOMAIN class_table :
                    /\ Climb(class_table, c, None, N) = "Object"
                    /\ Len(ancestors_of(class_table, c)) <= N
              /\ \A t \in {"SELF_TYPE", "Undeclared"} :
                    Climb(class_table, t, None, N) # "<unfinished>"

(* a validated table where a declared class is two parent steps below     *)
(* Object: has_cycle and the ancestor walk both take three steps from it  *)
ChainOfThreeWalkedReached ==
    /\ Validated
    /\ \E c \in ClassNamesOf(ast) :
          /\ Len(ancestors_of(class_table, c)) = 3
          /\ has_cycle(class_table, c, {}).calls = 3
          /\ Climb(class_table, c, None, 3) = "Object"

-----------------------------------------------------------------------------
(* C22: let a: A <- new A, b: A <- new A in { a.set(7); b.get_x(); }, A    *)
(* declaring x: Int <- 5, set(v: Int): Int { x <- v } and get_x(): Int     *)
(* { x }, yields 5: the assignment made with a as receiver changes the     *)
(* slot x of that object only, the other instance of A still holds 5, and  *)
(* no other object exists but the Main object, whose slots are untouched.  *)
AssignmentChangesReceiverOnly ==
    (/\ epc = "done" /\ "Main" \in DOMAIN class_defs /\ "A" \in DOMAIN class_defs
     /\ class_defs["Main"].features = TwoInstances
     /\ class_defs["A"].features = <<AttrX, SetX, GetX>>) =>
        /\ result.status = "ok" /\ result.val = IntV(5)
        /\ \E o1, o2 \in ObjectsOf("A") :
              /\ o1 # o2
              /\ heap[o1].attrs["x"] = IntV(7)
              /\ heap[o2].attrs["x"] = IntV(5)
              /\ ObjectsOf("A") = {o1, o2}
        /\ \A o \in ObjectsOf("Main") : DOMAIN heap[o].attrs = {}

-----------------------------------------------------------------------------
(* C23: main(): Int { a / b } yields the quotient truncated toward zero:  *)
(* 7 / 2 = 3, (0 - 7) / 2 = -3, 7 / (0 - 2) = -3, (0 - 7) / (0 - 2) = 3.   *)
DivisionTruncatesTowardZero ==
    (epc = "done" /\ "Main" \in DOMAIN class_defs) =>
        /\ class_defs["Main"].features = Quotient(IntegerConstant(7), IntegerConstant(2))
              => (result.status = "ok" /\ result.val = IntV(3))
        /\ class_defs["Main"].features = Quotient(Minus(7), IntegerConstant(2))
              => (result.status = "ok" /\ result.val = IntV(-3))
        /\ class_defs["Main"].features = Quotient(IntegerConstant(7), Minus(2))
              => (result.status = "ok" /\ result.val = IntV(-3))
        /\ class_defs["Main"].features = Quotient(Minus(7), Minus(2))
              => (result.status = "ok" /\ result.val = IntV(3))

-----------------------------------------------------------------------------
(* the first class node of the program with name n *)
FirstDeclaration(classes, n) ==
    classes[CHOOSE i \in 1..Len(classes) :
               /\ classes[i].name = n
               /\ \A k \in 1..(i - 1) : classes[k].name # n]

(* the class nodes whose name a built-in class or an earlier class node has *)
DuplicateDeclarations(classes) ==
    {i \in 1..Len(classes) :
        \/ classes[i].name \in DOMAIN basic_types
        \/ \E k \in 1..(i - 1) : classes[k].name = classes[i].name}

(* the table entry made of one declaration alone *)
EntryOf(class_node) ==
    LET parent == IF class_node.parent # None THEN class_node.parent ELSE "Object"
        alone == [n \in {class_node.name} |-> Descriptor(parent, EmptyMap, EmptyMap)]
    IN collect_features(alone, class_node.name, class_node.features, 1)[class_node.name]

(* C24: build_class_table records one duplicate-class diagnostic for each *)
(* class node whose name is already in the table, and the entry of every  *)
(* name is that of its first declaration alone: the pre-seeded entry for  *)
(* a built-in class, the first class node of that name for a user class.  *)
DuplicateLeavesFirstEntry ==
    pc # "start" =>
        /\ Cardinality({k \in 1..Len(errors) : errors[k].kind = "Duplicate class definition"})
              = Cardinality(DuplicateDeclarations(ast))
        /\ \A n \in DOMAIN class_table :
              class_table[n] = IF n \in DOMAIN basic_types THEN basic_types[n]
                               ELSE EntryOf(FirstDeclaration(ast, n))

-----------------------------------------------------------------------------
(* C25: when eval has returned or raised, no attribute slot of any object *)
(* created, the Main object included, holds an unevaluated initializer    *)
(* expression of the program, and the value returned is not one: a slot   *)
(* holds void or a runtime value, which is what reading it yields.        *)
SlotsHoldValuesOnly ==
    epc = "done" =>
        /\ result.val.t # "expr"
        /\ \A o \in 1..Len(heap) : \A a \in DOMAIN heap[o].attrs :
              heap[o].attrs[a].t \in {"None", "int", "bool", "str", "COOLObject"}

-----------------------------------------------------------------------------
(* C26: let x: Int <- 1 in { let x: Int <- 2 in x; x } yields 1, the      *)
(* inner binding ending with the inner let; { let x: Int <- 1 in x; x }    *)
(* and { case new A of a: A => 0 esac; a } fail with an undefined          *)
(* variable, the binding of the let or of the branch ending with it.       *)
BindingsEndWithTheirBody ==
    (epc = "done" /\ "Main" \in DOMAIN class_defs) =>
        /\ class_defs["Main"].features = ShadowingLet
              => (result.status = "ok" /\ result.val = IntV(1))
        /\ class_defs["Main"].features = ReadAfterLet
              => /\ result.status = "raise" /\ result.exc = "RuntimeError"
                 /\ result.msg = <<"Undefined variable or attribute", "x">>
        /\ class_defs["Main"].features = ReadAfterCase
              => /\ result.status = "raise" /\ result.exc = "RuntimeError"
                 /\ result.msg = <<"Undefined variable or attribute", "a">>

-----------------------------------------------------------------------------
(* C27: with x: Int <- 5 and pick(x: String): String { x } in class A, the *)
(* checker types the x of the body String, the formal, with no diagnostic, *)
(* and (new A).pick("s") yields "s", the formal's value; and               *)
(* (new A).store(1), with store(x: Int): Int { { x <- 9; get_x(); } },     *)
(* yields 5: the assignment changes the formal, not the slot x.            *)
FormalShadowsAttributeInBoth ==
    ("A" \in DOMAIN class_defs /\ "Main" \in DOMAIN class_defs
        /\ class_defs["A"].features = ShadowingFormals) =>
        /\ Validated =>
              LET r == TypeIn([table |-> class_table, cls |-> "A"],
                              FormalsScope(PickFormal.formals), PickFormal.body)
              IN r.ty = "String" /\ r.st.errors = <<>>
        /\ (epc = "done" /\ class_defs["Main"].features = CallsPick)
              => /\ result.status = "ok" /\ result.val = StrV("s")
                 /\ \A o \in ObjectsOf("A") : heap[o].attrs["x"] = IntV(5)
        /\ (epc = "done" /\ class_defs["Main"].features = CallsStore)
              => /\ result.status = "ok" /\ result.val = IntV(5)
                 /\ \A o \in ObjectsOf("A") : heap[o].attrs["x"] = IntV(5)

-----------------------------------------------------------------------------
(* C28: in class A with m(p: Int): Int { p }; y: Object <- p;              *)
(* n(): Object { p }, check hands the three features to the expression     *)
(* checker and records the undefined-identifier diagnostic for p twice:    *)
(* once for the initializer of y and once for the body of n, p being in    *)
(* scope in the body of m only.                                            *)
FormalsEndWithTheirMethod ==
    (pc = "done" /\ ast[1].name = "A" /\ ast[1].features = FormalThenOthers) =>
        /\ \A f \in {"m", "y", "n"} : InSeq(<<"A", f>>, checked)
        /\ Cardinality({k \in 1..Len(errors) :
                           errors[k] = Diag("Undefined identifier", "p")}) = 2

-----------------------------------------------------------------------------
(* C29: class Main { main: Int; main(): Int { 3 } } evaluates to 3, and    *)
(* (new B).foo(), B declaring the attribute foo: Int and inheriting        *)
(* foo(): Int { 1 } from A, evaluates to 1: the lookup of a method skips   *)
(* an attribute of the same name.                                          *)
LookupSelectsMethodsOnly ==
    (epc = "done" /\ "Main" \in DOMAIN class_defs) =>
        /\ class_defs["Main"].features = AttributeNamedMain
              => (result.status = "ok" /\ result.val = IntV(3))
        /\ (/\ class_defs["Main"].features = MainReturns("Int", NewBFoo)
            /\ "A" \in DOMAIN class_defs /\ class_defs["A"].features = <<FooReturns(1)>>
            /\ "B" \in DOMAIN class_defs /\ class_defs["B"].features = AttributeNamedFoo)
              => (result.status = "ok" /\ result.val = IntV(1))

-----------------------------------------------------------------------------
(* check has returned: at line 82, or at one of the later returns *)
Returned == pc \in {"empty", "done"}

(* C30: check always ends by returning a boolean, an exception raised     *)
(* while the classes are checked being recorded as a diagnostic; it has    *)
(* returned True exactly when no diagnostic is recorded at that point, so  *)
(* a result of False comes with at least one diagnostic; and before it has *)
(* returned there is no result.                                            *)
ResultAgreesWithDiagnostics ==
    /\ Returned => /\ ret \in BOOLEAN
                   /\ (ret = TRUE) <=> (errors = <<>>)
                   /\ (ret = FALSE) => Len(errors) >= 1
    /\ ~Returned => ret = None

(* check has returned False after an exception raised by the expression   *)
(* checker, the only diagnostic being that exception's text                *)
ExceptionReportedReached ==
    /\ pc = "done"
    /\ ret = FALSE
    /\ errors = <<Diag("Exception", AttributeErrorOp)>>
====
